---- MODULE Spec2Model ----
(***************************************************************************)
(* Model of the orchestration core of financial-agent:                     *)
(*   - the analysis graph of IntegratedCryptoAnalyzer (parse_query,        *)
(*     gather_context, plan_execution, execute_step, analyze_data,         *)
(*     synthesize_results) with its channel reducers,                      *)
(*   - CryptoAnalyzer.performComprehensiveAnalysis / synthesizeResults,    *)
(*   - the MCPClientManager registry of src/clients (getClient,            *)
(*     healthCheck, disconnectClient) over MCPClient connections.          *)
(* The specifications share the variables: Spec drives one analyzeQuery    *)
(* session through the graph (CancelSpec: with a termination signal),      *)
(* MgrSpec interleaves concurrent callers of the client manager            *)
(* (SeqMgrSpec: one caller at a time; ShutdownSpec: with disconnectAll;    *)
(* ConnectAllSpec: with connectAll), and FnSpec calls the helpers          *)
(* (normalizeSymbol, planExecution, the plan schema, the Analyzer) on      *)
(* their own.  ToolSpec runs concurrent sessions that call executeTool of  *)
(* the orchestrator's manager, LifeSpec its initialize and cleanup,        *)
(* WorkflowSpec one run of AnalysisWorkflow (three agent nodes, then       *)
(* coordination) and ChatSpec one processUserRequest of the chat client    *)
(* (ChatFairSpec: the awaited calls settle).                               *)
(***************************************************************************)
EXTENDS Integers, Sequences, FiniteSets, TLC

VARIABLES
  pc,            \* graph node about to run, or idle / END / returned
  state,         \* the graph state: one field per declared channel
  lastUpdate,    \* the partial state returned by the node that ran last
  mcpClients,    \* servers registered in the orchestrator's MCPClientManager
  executeCalls,  \* number of times the execute_step node has run
  toolCalls,     \* number of executeTool calls issued by execute_step
  lastCall,      \* what the last executeTool call of execute_step did
  session,       \* what analyzeQuery resolved with, or NoSession
  clients,       \* src/clients manager: registry serverName -> client
  tstate,        \* per MCPClient object: state of its transport
  isShuttingDown,
  cpc,           \* per getClient call: where it is suspended
  cname,         \* per getClient call: the serverName argument
  cclient,       \* per getClient call: the client it holds while suspended
  cret,          \* per getClient call: the client it returned
  hpc,           \* healthCheck: idle / running
  health,        \* healthCheck: the record being built
  dpc,           \* disconnectAll: idle / running / returned
  dsnap,         \* disconnectAll: the entries it iterates (name -> client)
  dpending,      \* disconnectAll: names whose disconnect() has not settled
  derrors,       \* names whose disconnect() logged an error
  apc,           \* connectAll: idle / running / returned
  acalls,        \* connectAll: the getClient call it made per server
  aresults,      \* connectAll: the results array (server -> success)
  signal,        \* SIGINT/SIGTERM: not delivered, or delivered after `at` steps
  fpc,           \* a single call of a helper function: start / done
  fin,           \* the helper called and its arguments
  fout,          \* what the helper returned
  ssymbols,      \* per analyzeQuery session: the symbols of its query
  scaller,       \* per session: the node that calls executeTool
  swait,         \* per session: the server whose callTool it awaits, or none
  sleft,         \* per session: the servers of the calls the node has yet to make
  provider,      \* per server: what its process does when it is started
  runner,        \* cli-runner main: the call it awaits, or how it ended
  ipc,           \* initialize(): idle / connect / listTools / resolved / rejected
  iat,           \* initialize(): index in ServerOrder of the server at hand
  mcpTransports, \* servers with a transport in the manager's transport map
  toolMetadata,  \* servers whose tools are in the manager's tool registry
  otransport,    \* per server: its StdioClientTransport (none / open / closed)
  kpc,           \* cleanup(): idle / running / returned
  kleft,         \* cleanup(): the transports its loop has yet to reach
  kattempted,    \* cleanup(): the servers whose transport.close() was called
  wpc,           \* AnalysisWorkflow run: idle / agents / coordination / end
  winput,        \* the state the three agent nodes of the superstep were given
  wupdate,       \* per agent node: running, or the partial state it returned
  wstate,        \* the AgentStateAnnotation channels of the run
  qpc,           \* processUserRequest: idle / llm / tool / returned / raised
  iteration,     \* processUserRequest: the loop counter
  messages,      \* processUserRequest: the conversation (kinds of message)
  llmCalls,      \* number of ollama.chat round-trips of the request
  toolExecs,     \* number of manager.executeTool calls of the request
  answered,      \* the final answer was printed
  warned         \* the max-iterations warning was printed

gvars == <<pc, state, lastUpdate, mcpClients, executeCalls, toolCalls, lastCall,
          session>>
dvars == <<dpc, dsnap, dpending, derrors>>
avars == <<apc, acalls, aresults>>
mvars == <<clients, tstate, isShuttingDown, cpc, cname, cclient, cret, hpc, health,
          dpc, dsnap, dpending, derrors, apc, acalls, aresults, signal>>
vars == <<pc, state, lastUpdate, mcpClients, executeCalls, toolCalls, lastCall, session,
          clients, tstate, isShuttingDown, cpc, cname, cclient, cret, hpc, health,
          dpc, dsnap, dpending, derrors, apc, acalls, aresults, signal,
          fpc, fin, fout, ssymbols, scaller, swait, sleft,
          provider, runner, ipc, iat, mcpTransports, toolMetadata, otransport,
          kpc, kleft, kattempted,
          wpc, winput, wupdate, wstate,
          qpc, iteration, messages, llmCalls, toolExecs, answered, warned>>
fvars == <<fpc, fin, fout>>
tvars == <<ssymbols, scaller, swait, sleft>>
lvars == <<provider, runner, ipc, iat, mcpTransports, toolMetadata, otransport,
          kpc, kleft, kattempted>>
wvars == <<wpc, winput, wupdate, wstate>>
qvars == <<qpc, iteration, messages, llmCalls, toolExecs, answered, warned>>
xvars == <<wvars, qvars>>
ovars == <<tvars, lvars, xvars>>

(***************************************************************************)
(* Bounds                                                                  *)
(***************************************************************************)
\* longest plan the Planner LLM is let to return
MaxPlanSteps == 2
\* most symbols a query is let to mention
MaxSymbols == 1
\* getClient calls made on the client manager in one behaviour
NumCalls == 3
\* analyzeQuery sessions run concurrently on one analyzer
NumSessions == 2

(***************************************************************************)
(* Graph state and channels                                                *)
(***************************************************************************)
NoResult == [kind |-> "undefined"]
NoSession == [resolved |-> FALSE]
NoError == "undefined"
NoCall == [called |-> FALSE]

\* Keys of SYMBOL_MAPPING a query may contain, in the mapping's order.
SymbolKeys == <<"BTC", "ETH">>

\* Servers of config.mcpServers, in the order initialize() connects them.
ServerOrder == <<"crypto", "news", "stock">>

\* The strings of the model, each with its upper-cased, lower-cased and
\* capitalised spelling.
CaseForms ==
  { <<"BTC", "btc", "Btc">>, <<"BITCOIN", "bitcoin", "Bitcoin">>,
    <<"ETH", "eth", "Eth">>, <<"ETHEREUM", "ethereum", "Ethereum">>,
    <<"PEPE", "pepe", "Pepe">>, <<"", "", "">> }

Strings == UNION {{w[1], w[2], w[3]} : w \in CaseForms}

FormsOf(str) == CHOOSE w \in CaseForms : str \in {w[1], w[2], w[3]}

toUpperCase(str) == FormsOf(str)[1]

toLowerCase(str) == FormsOf(str)[2]

\* Four entries of SYMBOL_MAPPING.
SYMBOL_MAPPING ==
  [k \in {"BTC", "BITCOIN", "ETH", "ETHEREUM"} |->
     IF k \in {"BTC", "BITCOIN"} THEN "bitcoin" ELSE "ethereum"]

\* Variant: the mapping is looked up with the symbol as it was given.
normalizeSymbol_NoUpper(symbol) ==
  IF symbol \in DOMAIN SYMBOL_MAPPING THEN SYMBOL_MAPPING[symbol]
  ELSE toLowerCase(symbol)

normalizeSymbol(symbol) ==
  LET upperSymbol == toUpperCase(symbol)
  IN  IF upperSymbol \in DOMAIN SYMBOL_MAPPING THEN SYMBOL_MAPPING[upperSymbol]
      ELSE toLowerCase(symbol)

RECURSIVE SelectKeys(_, _)
SelectKeys(keys, present) ==
  IF keys = <<>> THEN <<>>
  ELSE (IF Head(keys) \in present THEN <<Head(keys)>> ELSE <<>>)
         \o SelectKeys(Tail(keys), present)

\* extractSymbolsFromQuery: the mapping keys the upper-cased query contains,
\* in mapping order; a query is represented by the set of keys it contains.
extractSymbolsFromQuery(query) == SelectKeys(SymbolKeys, query)

Queries == {q \in SUBSET {SymbolKeys[i] : i \in 1..Len(SymbolKeys)} :
              Cardinality(q) <= MaxSymbols}

DefaultSummary ==
  [overallSentiment |-> "neutral", keyFindings |-> 0, recommendations |-> 0,
   summary |-> "empty", confidenceScore |-> [num |-> 50, den |-> 100]]

DefaultPlan == [steps |-> <<>>, analysisType |-> "comprehensive", priority |-> 3]

\* analyzeQuery's initialState (the channels' defaults are the same values).
initialState(query) ==
  [query |-> query, symbols |-> <<>>, analysisResults |-> <<>>,
   executionPlan |-> DefaultPlan, currentStep |-> 0,
   newsContext |-> 0, finalSummary |-> DefaultSummary]

\* The channel reducers of buildGraph: analysisResults is merged with
\* (x, y) => [...x, ...y]; every other channel keeps the last value written.
\* A key that is no declared channel (error) is not part of the state.
ChannelMerge(k, x, y) == IF k = "analysisResults" THEN x \o y ELSE y

ApplyUpdate(s, u) ==
  [k \in DOMAIN s |-> IF k \in DOMAIN u THEN ChannelMerge(k, s[k], u[k]) ELSE s[k]]

EmptyUpdate == [k \in {} |-> 0]

(***************************************************************************)
(* Planner: the plan the LLM returns, or the fallback plan                 *)
(***************************************************************************)
\* Steps the Planner LLM may put in a plan (toolName, mcpServer, targetSymbol);
\* mcpServer is optional in ExecutionPlanSchema.
PlannerSteps ==
  { [toolName |-> "get_crypto_price", mcpServer |-> "crypto", targetSymbol |-> "BTC"],
    [toolName |-> "get_market_data", mcpServer |-> "undefined", targetSymbol |-> "BTC"],
    [toolName |-> "search_news", mcpServer |-> "news", targetSymbol |-> "BTC"] }

RECURSIVE SeqsUpTo(_, _)
SeqsUpTo(S, n) ==
  IF n = 0 THEN {<<>>}
  ELSE LET shorter == SeqsUpTo(S, n - 1)
       IN  shorter \cup {Append(s, x) : s \in {t \in shorter : Len(t) = n - 1}, x \in S}

\* What planExecution's try block keeps of a parsed step i of the LLM's plan.
PlannedStep(t, i) ==
  [id |-> <<"llm", t.targetSymbol, i>>, toolName |-> t.toolName,
   mcpServer |-> t.mcpServer, targetSymbol |-> t.targetSymbol,
   completed |-> FALSE, result |-> NoResult]

PlannerPlans ==
  { [steps |-> [i \in 1..Len(ts) |-> PlannedStep(ts[i], i)],
     analysisType |-> "comprehensive", priority |-> 3] :
    ts \in SeqsUpTo(PlannerSteps, MaxPlanSteps) }

\* The three fallback steps of symbols[index] (index is 0-based in the ids).
FallbackSteps(symbol, index) ==
  << [id |-> <<"price", symbol, index>>, toolName |-> "get_crypto_price",
      parameters |-> [symbol |-> normalizeSymbol(symbol)],
      description |-> <<symbol, "price">>,
      mcpServer |-> "crypto", targetSymbol |-> symbol,
      completed |-> FALSE, result |-> NoResult],
     [id |-> <<"market", symbol, index>>, toolName |-> "get_market_data",
      parameters |-> [symbol |-> normalizeSymbol(symbol)],
      description |-> <<symbol, "market">>,
      mcpServer |-> "crypto", targetSymbol |-> symbol,
      completed |-> FALSE, result |-> NoResult],
     [id |-> <<"news", symbol, index>>, toolName |-> "search_news",
      parameters |-> [query |-> <<symbol, "cryptocurrency news">>],
      description |-> <<symbol, "news">>,
      mcpServer |-> "news", targetSymbol |-> symbol,
      completed |-> FALSE, result |-> NoResult] >>

RECURSIVE FallbackFrom(_, _)
FallbackFrom(symbols, index) ==
  IF index >= Len(symbols) THEN <<>>
  ELSE FallbackSteps(symbols[index + 1], index) \o FallbackFrom(symbols, index + 1)

FallbackPlan(symbols) ==
  [steps |-> FallbackFrom(symbols, 0), analysisType |-> "comprehensive", priority |-> 3]

\* planExecution: the planner outcome carries a plan when the LLM call, the
\* parser and ExecutionPlanSchema.parse all succeed, and none when any throws.
PlannerOutcomes == {[ok |-> FALSE]} \cup {[ok |-> TRUE, plan |-> p] : p \in PlannerPlans}

\* Variant: a failed Planner leaves the plan empty.
planExecution_EmptyOnFailure(s, planned) ==
  IF planned.ok
  THEN [executionPlan |-> planned.plan]
  ELSE [executionPlan |-> DefaultPlan]

planExecution(s, planned) ==
  IF planned.ok
  THEN [executionPlan |-> planned.plan]
  ELSE [executionPlan |-> FallbackPlan(s.symbols)]

(***************************************************************************)
(* executeStep and the conditional edge                                    *)
(***************************************************************************)
\* What a provider call may do: return a JSON payload carrying a symbol
\* field, return a text that is no JSON (a server's isError message), or
\* fail (transport, protocol, provider error, timeout).
ProviderOutcomes == {"data", "text", "throw"}

\* MCPClientManager.executeTool: throws when the server has no client.
executeTool(registered, serverName, outcome) ==
  IF serverName \notin registered THEN [threw |-> TRUE, error |-> "not available"]
  ELSE IF outcome = "throw" THEN [threw |-> TRUE, error |-> "call failed"]
  ELSE [threw |-> FALSE, content |-> outcome]

ServerOf(step) == IF step.mcpServer = "undefined" THEN "crypto" ELSE step.mcpServer

\* Variant: the finished step is added to the plan instead of replacing
\* the step it was made from.
SetStep_Append(plan, i, step) == [plan EXCEPT !.steps = Append(plan.steps, step)]

SetStep(plan, i, step) == [plan EXCEPT !.steps = [plan.steps EXCEPT ![i] = step]]

\* The executeTool call executeStep makes for the step at currentStep, if any.
StepCall(s, registered, outcome) ==
  IF s.currentStep >= Len(s.executionPlan.steps) THEN NoCall
  ELSE [called |-> TRUE,
        threw |-> executeTool(registered,
                              ServerOf(s.executionPlan.steps[s.currentStep + 1]),
                              outcome).threw]

\* Variant: the catch branch stores the error but returns no currentStep.
executeStep_NoAdvanceOnFailure(s, registered, outcome) ==
  IF s.currentStep >= Len(s.executionPlan.steps)
  THEN [currentStep |-> s.currentStep]
  ELSE LET step == s.executionPlan.steps[s.currentStep + 1]
           r == executeTool(registered, ServerOf(step), outcome)
       IN  IF r.threw
           THEN [executionPlan |->
                   SetStep(s.executionPlan, s.currentStep + 1,
                           [step EXCEPT !.completed = TRUE,
                              !.result = [kind |-> "content", payload |-> "error",
                                          error |-> r.error]])]
           ELSE [executionPlan |->
                   SetStep(s.executionPlan, s.currentStep + 1,
                           [step EXCEPT !.completed = TRUE,
                              !.result = [kind |-> "content", payload |-> r.content,
                                          error |-> NoError]]),
                 currentStep |-> s.currentStep + 1]

\* Variant: a failed call leaves the step as it was (not completed, no result).
executeStep_DropFailure(s, registered, outcome) ==
  IF s.currentStep >= Len(s.executionPlan.steps)
  THEN [currentStep |-> s.currentStep]
  ELSE LET step == s.executionPlan.steps[s.currentStep + 1]
           r == executeTool(registered, ServerOf(step), outcome)
       IN  IF r.threw
           THEN [currentStep |-> s.currentStep + 1]
           ELSE [executionPlan |->
                   SetStep(s.executionPlan, s.currentStep + 1,
                           [step EXCEPT !.completed = TRUE,
                              !.result = [kind |-> "content", payload |-> r.content,
                                          error |-> NoError]]),
                 currentStep |-> s.currentStep + 1]

\* Variant: the call made past the end of the plan advances currentStep.
executeStep_AdvancePastEnd(s, registered, outcome) ==
  IF s.currentStep >= Len(s.executionPlan.steps)
  THEN [currentStep |-> s.currentStep + 1]
  ELSE LET step == s.executionPlan.steps[s.currentStep + 1]
           r == executeTool(registered, ServerOf(step), outcome)
       IN  [executionPlan |->
              SetStep(s.executionPlan, s.currentStep + 1,
                      [step EXCEPT !.completed = TRUE,
                         !.result = [kind |-> "content",
                                     payload |-> IF r.threw THEN "error" ELSE r.content,
                                     error |-> IF r.threw THEN r.error ELSE NoError]]),
            currentStep |-> s.currentStep + 1]

\* executeStep: the partial state the node returns. currentStep counts from
\* 0, sequences from 1: the step at currentStep is steps[currentStep + 1].
executeStep(s, registered, outcome) ==
  IF s.currentStep >= Len(s.executionPlan.steps)
  THEN [currentStep |-> s.currentStep]
  ELSE LET step == s.executionPlan.steps[s.currentStep + 1]
           r == executeTool(registered, ServerOf(step), outcome)
           done == IF r.threw
                   THEN [step EXCEPT !.completed = TRUE,
                           !.result = [kind |-> "content", payload |-> "error",
                                       error |-> r.error]]
                   ELSE [step EXCEPT !.completed = TRUE,
                           !.result = [kind |-> "content", payload |-> r.content,
                                       error |-> NoError]]
       IN  [executionPlan |-> SetStep(s.executionPlan, s.currentStep + 1, done),
            currentStep |-> s.currentStep + 1]

\* Variant: the bound test is off by one, so the last step is skipped.
shouldContinueExecution_OffByOne(s) ==
  IF s.currentStep + 1 >= Len(s.executionPlan.steps) THEN "done"
  ELSE IF s.currentStep >= 1 /\ s.executionPlan.steps[s.currentStep].completed
       THEN "continue"
       ELSE "next_step"

shouldContinueExecution(s) ==
  IF s.currentStep >= Len(s.executionPlan.steps) THEN "done"
  ELSE IF s.currentStep >= 1 /\ s.executionPlan.steps[s.currentStep].completed
       THEN "continue"
       ELSE "next_step"

EdgeTarget(label) ==
  CASE label = "continue" -> "analyze_data"
    [] label = "next_step" -> "execute_step"
    [] label = "done" -> "synthesize_results"

(***************************************************************************)
(* analyzeData and the Analyzer                                            *)
(***************************************************************************)
NullAnalysis == [isNull |-> TRUE]

\* parseStepResult: what JSON.parse of the text item yields. A payload
\* "data" is an object with a symbol field; the error object executeStep
\* stored and the {error, timestamp} object built for a text that is no JSON
\* have keys but no symbol field; a payload "empty" is an object with no
\* key (or a content array with no text item).
parseStepResult(result) ==
  IF result.payload = "data" THEN [hasSymbol |-> TRUE, keys |-> 3]
  ELSE IF result.payload = "empty" THEN [hasSymbol |-> FALSE, keys |-> 0]
  ELSE [hasSymbol |-> FALSE, keys |-> 2]

\* A number of the LLM's JSON, in hundredths, or a value that is no number.
Num(pct) == [isNumber |-> TRUE, pct |-> pct]
NotANumber == [isNumber |-> FALSE]

\* What the analysis LLM may do: the chat call throws, the content is no
\* JSON, or it is a JSON object with some of the fields of the judgment.
LlmThrows == [kind |-> "throw"]
LlmText == [kind |-> "text"]
LlmJson(fields) == [kind |-> "json", fields |-> fields]

\* The outcomes the graph is run with: a failed call, a text that is no
\* JSON, a valid judgment.
AnalyzerOutcomes ==
  {LlmThrows, LlmText, LlmJson([recommendation |-> "buy", confidence |-> Num(90)])}

\* AnalysisResultSchema.parse of {defaults, ...parsedContent}: throws on a
\* recommendation outside the enum and on a confidence that is no number or
\* lies outside [0, 1].
AnalysisResultSchema_parse(fields) ==
  LET recommendation == IF "recommendation" \in DOMAIN fields
                        THEN fields.recommendation ELSE "hold"
      confidence == IF "confidence" \in DOMAIN fields
                    THEN fields.confidence ELSE Num(50)
      reasoning == IF "reasoning" \in DOMAIN fields THEN "llm" ELSE "incomplete"
  IN  IF \/ recommendation \notin {"buy", "sell", "hold"}
         \/ ~confidence.isNumber
         \/ confidence.pct < 0 \/ confidence.pct > 100
      THEN [threw |-> TRUE]
      ELSE [threw |-> FALSE, recommendation |-> recommendation,
            confidence |-> confidence.pct, reasoning |-> reasoning]

\* Math.max(0, Math.min(1, confidence)), in hundredths.
Clamp(pct) == IF pct < 0 THEN 0 ELSE IF pct > 100 THEN 100 ELSE pct

\* Variant: the LLM's fields are taken as they come, unvalidated, unclamped.
performComprehensiveAnalysis_Unchecked(data, toolName, targetSymbol, llm) ==
  IF ~(toolName \in {"get_crypto_price", "get_market_data"} /\ data.hasSymbol)
  THEN NullAnalysis
  ELSE IF llm.kind = "throw" THEN NullAnalysis
  ELSE IF llm.kind = "json" /\ "confidence" \in DOMAIN llm.fields
          /\ llm.fields.confidence.isNumber
       THEN [isNull |-> FALSE, symbol |-> targetSymbol, recommendation |-> "hold",
             confidence |-> llm.fields.confidence.pct, reasoning |-> "llm"]
       ELSE [isNull |-> FALSE, symbol |-> targetSymbol, recommendation |-> "hold",
             confidence |-> 50, reasoning |-> "failed"]

\* confidence is kept in hundredths: 50 is 0.5.
performComprehensiveAnalysis(data, toolName, targetSymbol, llm) ==
  IF ~(toolName \in {"get_crypto_price", "get_market_data"} /\ data.hasSymbol)
  THEN NullAnalysis
  ELSE IF llm.kind = "throw" THEN NullAnalysis
  ELSE LET parsed == IF llm.kind = "json" THEN AnalysisResultSchema_parse(llm.fields)
                     ELSE [threw |-> TRUE]
           aiResult == IF parsed.threw
                       THEN [recommendation |-> "hold", confidence |-> 50,
                             reasoning |-> "failed"]
                       ELSE parsed
       IN  [isNull |-> FALSE, symbol |-> targetSymbol,
            recommendation |-> aiResult.recommendation,
            confidence |-> Clamp(aiResult.confidence),
            reasoning |-> aiResult.reasoning]

\* Variant: the analysis is recorded without testing it for null.
analyzeData_RecordNull(s, llm) ==
  IF s.currentStep < 1 \/ s.currentStep > Len(s.executionPlan.steps)
  THEN EmptyUpdate
  ELSE LET completedStep == s.executionPlan.steps[s.currentStep]
       IN  IF completedStep.result = NoResult THEN EmptyUpdate
           ELSE [analysisResults |->
                   Append(s.analysisResults,
                          performComprehensiveAnalysis(
                            parseStepResult(completedStep.result),
                            completedStep.toolName, completedStep.targetSymbol, llm))]

\* analyzeData: the partial state the node returns. The step just completed
\* is steps[currentStep - 1] in the code, steps[currentStep] here.
analyzeData(s, llm) ==
  IF s.currentStep < 1 \/ s.currentStep > Len(s.executionPlan.steps)
  THEN EmptyUpdate
  ELSE LET completedStep == s.executionPlan.steps[s.currentStep]
       IN  IF completedStep.result = NoResult THEN EmptyUpdate
           ELSE LET data == parseStepResult(completedStep.result)
                    analysis == performComprehensiveAnalysis(
                                  data, completedStep.toolName,
                                  completedStep.targetSymbol, llm)
                IN  IF data.keys = 0 \/ analysis.isNull THEN EmptyUpdate
                    ELSE [analysisResults |-> Append(s.analysisResults, analysis)]

(***************************************************************************)
(* Synthesizer                                                             *)
(***************************************************************************)
RECURSIVE SumConfidence(_)
SumConfidence(results) ==
  IF results = <<>> THEN 0 ELSE Head(results).confidence + SumConfidence(Tail(results))

CountRec(results, rec) ==
  Cardinality({i \in 1..Len(results) : results[i].recommendation = rec})

\* What the synthesis LLM may do: the chat call throws, the content is no
\* JSON, it violates AnalysisSummarySchema, it is an object with every field
\* missing, or it is a complete summary.
SynthOutcomes == {"throw", "unparsable", "invalid", "partial", "full"}

\* Variant: the fallback computed after a parse failure is lost when there is
\* nothing to average over.
AnalyzerSynthesize_NoEmptyFallback(results, llm) ==
  IF llm \in {"unparsable", "invalid"} /\ results = <<>>
  THEN [isNull |-> TRUE]
  ELSE [overallSentiment |-> "neutral", keyFindings |-> Len(results),
        recommendations |-> 1, summary |-> "synthesis failed",
        confidenceScore |-> [num |-> 50, den |-> 100]]

\* CryptoAnalyzer.synthesizeResults. keyFindings and recommendations are the
\* lengths of the lists; confidenceScore is the fraction num/den, which is
\* NaN when den = 0 (the average over an empty list).
AnalyzerSynthesize(results, llm) ==
  CASE llm = "throw" ->
         [overallSentiment |-> "neutral", keyFindings |-> Len(results),
          recommendations |-> 1, summary |-> "synthesis failed",
          confidenceScore |-> [num |-> 50, den |-> 100]]
    [] llm \in {"unparsable", "invalid"} ->
         LET bullishCount == CountRec(results, "buy")
             bearishCount == CountRec(results, "sell")
         IN  [overallSentiment |->
                IF bullishCount > bearishCount THEN "bullish"
                ELSE IF bearishCount > bullishCount THEN "bearish" ELSE "neutral",
              keyFindings |-> Len(results), recommendations |-> 3,
              summary |-> "computed",
              confidenceScore |-> [num |-> SumConfidence(results),
                                   den |-> 100 * Len(results)]]
    [] llm = "partial" -> DefaultSummary
    [] llm = "full" ->
         [overallSentiment |-> "bullish", keyFindings |-> 3, recommendations |-> 2,
          summary |-> "text", confidenceScore |-> [num |-> 80, den |-> 100]]

\* The synthesize_results node.
synthesizeResults(s, llm) ==
  [finalSummary |-> AnalyzerSynthesize(s.analysisResults, llm)]

\* What analyzeQuery resolves with after graph.invoke returned result.
analyzeQueryResult(result) ==
  [resolved |-> TRUE,
   success |-> ("error" \notin DOMAIN result),
   results |-> result.analysisResults,
   summary |-> result.finalSummary,
   error |-> IF "error" \in DOMAIN result THEN result.error ELSE NoError]

(***************************************************************************)
(* The analysis graph: one action per node, run by analyzeQuery            *)
(***************************************************************************)
\* The prefixes of ServerOrder: initialize() connects the servers in order
\* and stops at the first that fails.
ConnectedPrefixes == {{ServerOrder[i] : i \in 1..n} : n \in 0..Len(ServerOrder)}

\* The server names callers pass to getClient: two of the three names of
\* getAvailableServers().
ManagerServers == {"crypto-mcp-server", "news-mcp-server"}

\* Each getClient call is made once; the MCPClient a call constructs carries
\* the call's number.
Calls == 1..NumCalls
NoClient == 0
NoSignal == [delivered |-> FALSE]
Sessions == 1..NumSessions

MgrInit ==
  /\ clients = [n \in ManagerServers |-> NoClient]
  /\ tstate = [c \in Calls |-> "unborn"]
  /\ isShuttingDown = FALSE
  /\ cpc = [p \in Calls |-> "idle"]
  /\ cname = [p \in Calls |-> "none"]
  /\ cclient = [p \in Calls |-> NoClient]
  /\ cret = [p \in Calls |-> NoClient]
  /\ hpc = "idle"
  /\ health = [n \in {} |-> TRUE]
  /\ dpc = "idle"
  /\ dsnap = [n \in {} |-> NoClient]
  /\ dpending = {}
  /\ derrors = {}
  /\ apc = "idle"
  /\ acalls = [n \in {} |-> NoClient]
  /\ aresults = [n \in {} |-> TRUE]
  /\ signal = NoSignal

GraphInit ==
  /\ pc = "idle"
  /\ state = initialState({})
  /\ lastUpdate = EmptyUpdate
  /\ mcpClients \in ConnectedPrefixes
  /\ executeCalls = 0
  /\ toolCalls = 0
  /\ lastCall = NoCall
  /\ session = NoSession

\* No helper has been called on its own.
NoArgs == [op |-> "none"]

FnInit ==
  /\ fpc = "start"
  /\ fin = NoArgs
  /\ fout = NoArgs

\* No analyzeQuery session runs on the shared analyzer.
ToolInit ==
  /\ ssymbols = [s \in Sessions |-> <<>>]
  /\ scaller = [s \in Sessions |-> "idle"]
  /\ swait = [s \in Sessions |-> "none"]
  /\ sleft = [s \in Sessions |-> <<>>]

Servers == {ServerOrder[i] : i \in 1..Len(ServerOrder)}

\* The manager as constructed: empty maps, no transport, nothing called.
LifeInit0 ==
  /\ runner = "start"
  /\ ipc = "idle"
  /\ iat = 0
  /\ mcpTransports = {}
  /\ toolMetadata = {}
  /\ otransport = [n \in Servers |-> "none"]
  /\ kpc = "idle"
  /\ kleft = <<>>
  /\ kattempted = {}

\* Every server process starts and answers.
LifeInit == LifeInit0 /\ provider = [n \in Servers |-> "ok"]

\* The agents of AnalysisWorkflow, and the marker of a node that has not returned.
Agents == {"stock", "crypto", "news"}
Running == [running |-> TRUE]
NoReport == [none |-> TRUE]

\* The channels of AgentStateAnnotation before a run: the declared defaults
\* (symbols [], stockAnalysis {}, cryptoAnalysis {}, agentStatus {}, errors []).
AgentStateDefaults ==
  [symbols |-> <<>>, stockAnalysis |-> {}, cryptoAnalysis |-> {},
   newsAnalysis |-> NoReport, finalReport |-> NoReport,
   agentStatus |-> [k \in {} |-> "pending"], errors |-> <<>>]

WorkflowInit ==
  /\ wpc = "idle"
  /\ winput = AgentStateDefaults
  /\ wupdate = [a \in Agents |-> Running]
  /\ wstate = AgentStateDefaults

\* processUserRequest has not been called.
ChatInit ==
  /\ qpc = "idle"
  /\ iteration = 0
  /\ messages = <<>>
  /\ llmCalls = 0
  /\ toolExecs = 0
  /\ answered = FALSE
  /\ warned = FALSE

Init ==
  GraphInit /\ MgrInit /\ FnInit /\ ToolInit /\ LifeInit /\ WorkflowInit /\ ChatInit

\* A node ran: its update is merged into the state through the channels.
RunNode(update, next) ==
  /\ state' = ApplyUpdate(state, update)
  /\ lastUpdate' = update
  /\ pc' = next

\* analyzeQuery up to graph.invoke(initialState).
AnalyzeQuery ==
  /\ pc = "idle"
  /\ \E q \in Queries : state' = initialState(q)
  /\ pc' = "parse_query"
  /\ lastUpdate' = EmptyUpdate
  /\ UNCHANGED <<mcpClients, executeCalls, toolCalls, lastCall, session>>
  /\ UNCHANGED <<mvars, fvars, ovars>>

ParseQuery ==
  /\ pc = "parse_query"
  /\ RunNode([symbols |-> extractSymbolsFromQuery(state.query)], "gather_context")
  /\ UNCHANGED <<mcpClients, executeCalls, toolCalls, lastCall, session>>
  /\ UNCHANGED <<mvars, fvars, ovars>>

\* gatherMarketContext: the news fetched for the symbols (none when there is
\* no symbol or the news call fails, which the node swallows).
GatherContext ==
  /\ pc = "gather_context"
  /\ \E n \in 0..(IF state.symbols # <<>> /\ "news" \in mcpClients THEN 1 ELSE 0) :
       RunNode([newsContext |-> n], "plan_execution")
  /\ UNCHANGED <<mcpClients, executeCalls, toolCalls, lastCall, session>>
  /\ UNCHANGED <<mvars, fvars, ovars>>

PlanExecution ==
  /\ pc = "plan_execution"
  /\ \E planned \in PlannerOutcomes :
       RunNode(planExecution(state, planned), "execute_step")
  /\ UNCHANGED <<mcpClients, executeCalls, toolCalls, lastCall, session>>
  /\ UNCHANGED <<mvars, fvars, ovars>>

\* The execute_step node followed by its conditional edge.
ExecuteStep ==
  /\ pc = "execute_step"
  /\ \E outcome \in ProviderOutcomes :
       LET update == executeStep(state, mcpClients, outcome)
       IN  /\ RunNode(update,
                      EdgeTarget(shouldContinueExecution(ApplyUpdate(state, update))))
           /\ lastCall' = StepCall(state, mcpClients, outcome)
  /\ executeCalls' = executeCalls + 1
  /\ toolCalls' = toolCalls +
        (IF state.currentStep < Len(state.executionPlan.steps) THEN 1 ELSE 0)
  /\ UNCHANGED <<mcpClients, session>>
  /\ UNCHANGED <<mvars, fvars, ovars>>

\* addEdge('analyze_data', 'execute_step')
AfterAnalyzeData == "execute_step"

AnalyzeData ==
  /\ pc = "analyze_data"
  /\ \E llm \in AnalyzerOutcomes : RunNode(analyzeData(state, llm), AfterAnalyzeData)
  /\ UNCHANGED <<mcpClients, executeCalls, toolCalls, lastCall, session>>
  /\ UNCHANGED <<mvars, fvars, ovars>>

SynthesizeResults ==
  /\ pc = "synthesize_results"
  /\ \E llm \in SynthOutcomes : RunNode(synthesizeResults(state, llm), "END")
  /\ UNCHANGED <<mcpClients, executeCalls, toolCalls, lastCall, session>>
  /\ UNCHANGED <<mvars, fvars, ovars>>

\* graph.invoke returned: analyzeQuery resolves.
Resolve ==
  /\ pc = "END"
  /\ session' = analyzeQueryResult(state)
  /\ pc' = "returned"
  /\ UNCHANGED <<state, lastUpdate, mcpClients, executeCalls, toolCalls, lastCall>>
  /\ UNCHANGED <<mvars, fvars, ovars>>

Next ==
  \/ AnalyzeQuery
  \/ ParseQuery
  \/ GatherContext
  \/ PlanExecution
  \/ ExecuteStep
  \/ AnalyzeData
  \/ SynthesizeResults
  \/ Resolve

Spec == Init /\ [][Next]_vars

\* Every node returns (the provider and the LLM calls are awaited with no
\* other task to run), so the graph runner always takes its next step.
FairSpec == Init /\ [][Next]_vars /\ WF_vars(Next)

(***************************************************************************)
(* src/clients: MCPClient and the MCPClientManager registry               *)
(*                                                                         *)
(* A transport is unborn (its MCPClient does not exist yet), connecting    *)
(* (the subprocess is spawned and the handshake is under way), open, dead  *)
(* (the server process was killed), failed (the handshake failed) or       *)
(* closed (disconnect was called).                                         *)
(***************************************************************************)
\* Variant: listTools lets the SDK's error through, as callTool does.
MCPClient_listTools_Rethrow(ts) ==
  IF ts = "open" THEN [threw |-> FALSE, tools |-> "listed"]
  ELSE [threw |-> TRUE, tools |-> "none"]

\* MCPClient.listTools: the SDK call fails on a transport that is not open;
\* the method catches the error and returns [].
MCPClient_listTools(ts) ==
  IF ts = "open" THEN [threw |-> FALSE, tools |-> "listed"]
  ELSE [threw |-> FALSE, tools |-> "empty"]

\* Variant: the registry lookup never finds the entry.
RegistryHas_Never(reg, name) == FALSE

\* this.clients.has(serverName)
RegistryHas(reg, name) == reg[name] # NoClient

\* Variant: the client is registered before connect()'s result is tested.
RegisterConnected_Always(reg, name, c, connected) == [reg EXCEPT ![name] = c]

\* getClient after connect(): the client is registered only when connected.
RegisterConnected(reg, name, c, connected) ==
  IF connected THEN [reg EXCEPT ![name] = c] ELSE reg

InFlight(p) == cpc[p] \in {"probe", "connect"}

\* When exclusive, an operation starts only while no other one is in flight.
MayStart(p, exclusive) ==
  exclusive => (hpc # "running" /\ \A q \in Calls : q # p => ~InFlight(q))

\* getClient up to its first await: the shutdown test, then either
\* existingClient.listTools() or new MCPClient(serverName).connect(), which
\* spawns the server process.
GetClientStart(p, exclusive) ==
  /\ cpc[p] = "idle"
  /\ MayStart(p, exclusive)
  /\ \E name \in ManagerServers :
       /\ cname' = [cname EXCEPT ![p] = name]
       /\ IF isShuttingDown
          THEN /\ cpc' = [cpc EXCEPT ![p] = "failed"]
               /\ UNCHANGED <<cclient, tstate>>
          ELSE IF RegistryHas(clients, name)
          THEN /\ cpc' = [cpc EXCEPT ![p] = "probe"]
               /\ cclient' = [cclient EXCEPT ![p] = clients[name]]
               /\ UNCHANGED tstate
          ELSE /\ cpc' = [cpc EXCEPT ![p] = "connect"]
               /\ cclient' = [cclient EXCEPT ![p] = p]
               /\ tstate' = [tstate EXCEPT ![p] = "connecting"]
  /\ UNCHANGED <<clients, isShuttingDown, cret, hpc, health>>
  /\ UNCHANGED <<dvars, avars>>
  /\ UNCHANGED <<gvars, fvars, ovars, signal>>

\* existingClient.listTools() settled. When it did not throw the existing
\* client is returned; when it threw, disconnectClient(serverName) closes and
\* deletes the registered client and a new client starts to connect.
ProbeDone(p) ==
  /\ cpc[p] = "probe"
  /\ IF ~MCPClient_listTools(tstate[cclient[p]]).threw
     THEN /\ cpc' = [cpc EXCEPT ![p] = "returned"]
          /\ cret' = [cret EXCEPT ![p] = cclient[p]]
          /\ cclient' = [cclient EXCEPT ![p] = NoClient]
          /\ UNCHANGED <<clients, tstate>>
     ELSE /\ cpc' = [cpc EXCEPT ![p] = "connect"]
          /\ cclient' = [cclient EXCEPT ![p] = p]
          /\ clients' = [clients EXCEPT ![cname[p]] = NoClient]
          /\ tstate' = [c \in Calls |->
                          IF c = p THEN "connecting"
                          ELSE IF c = clients[cname[p]] THEN "closed"
                          ELSE tstate[c]]
          /\ UNCHANGED cret
  /\ UNCHANGED <<isShuttingDown, cname, hpc, health>>
  /\ UNCHANGED <<dvars, avars>>
  /\ UNCHANGED <<gvars, fvars, ovars, signal>>

\* client.connect() settled: true after the handshake, false when it failed
\* (connect catches the error); getClient registers and returns the client,
\* or throws.
ConnectDone(p) ==
  /\ cpc[p] = "connect"
  /\ \E connected \in BOOLEAN :
       /\ tstate' = [tstate EXCEPT ![p] = IF connected THEN "open" ELSE "failed"]
       /\ clients' = RegisterConnected(clients, cname[p], p, connected)
       /\ cpc' = [cpc EXCEPT ![p] = IF connected THEN "returned" ELSE "failed"]
       /\ cret' = [cret EXCEPT ![p] = IF connected THEN p ELSE NoClient]
  /\ cclient' = [cclient EXCEPT ![p] = NoClient]
  /\ UNCHANGED <<isShuttingDown, cname, hpc, health>>
  /\ UNCHANGED <<dvars, avars>>
  /\ UNCHANGED <<gvars, fvars, ovars, signal>>

\* The environment kills the server process behind an open transport.
Kill ==
  /\ \E c \in Calls :
       /\ tstate[c] = "open"
       /\ tstate' = [tstate EXCEPT ![c] = "dead"]
  /\ UNCHANGED <<clients, isShuttingDown, cpc, cname, cclient, cret, hpc, health>>
  /\ UNCHANGED <<dvars, avars>>
  /\ UNCHANGED <<gvars, fvars, ovars, signal>>

\* healthCheck starts with an empty record.
HealthStart(exclusive) ==
  /\ hpc = "idle"
  /\ exclusive => \A q \in Calls : ~InFlight(q)
  /\ hpc' = "running"
  /\ health' = [n \in {} |-> TRUE]
  /\ UNCHANGED <<clients, tstate, isShuttingDown, cpc, cname, cclient, cret>>
  /\ UNCHANGED <<dvars, avars>>
  /\ UNCHANGED <<gvars, fvars, ovars, signal>>

\* One iteration of healthCheck's loop over the registry: listTools() is
\* awaited and the entry's health is recorded.
HealthProbe ==
  /\ hpc = "running"
  /\ \E n \in ManagerServers :
       /\ RegistryHas(clients, n)
       /\ n \notin DOMAIN health
       /\ health' = [m \in DOMAIN health \cup {n} |->
                       IF m = n THEN ~MCPClient_listTools(tstate[clients[n]]).threw
                       ELSE health[m]]
  /\ UNCHANGED <<clients, tstate, isShuttingDown, cpc, cname, cclient, cret, hpc>>
  /\ UNCHANGED <<dvars, avars>>
  /\ UNCHANGED <<gvars, fvars, ovars, signal>>

\* The loop is over: healthCheck returns the record to its caller.
HealthDone ==
  /\ hpc = "running"
  /\ \A n \in ManagerServers : RegistryHas(clients, n) => n \in DOMAIN health
  /\ hpc' = "idle"
  /\ health' = [n \in {} |-> TRUE]
  /\ UNCHANGED <<clients, tstate, isShuttingDown, cpc, cname, cclient, cret>>
  /\ UNCHANGED <<dvars, avars>>
  /\ UNCHANGED <<gvars, fvars, ovars, signal>>

\* Callers of the shared manager run concurrently (connectAll, the workflow).
MgrNext ==
  \/ \E p \in Calls : GetClientStart(p, FALSE)
  \/ \E p \in Calls : ProbeDone(p)
  \/ \E p \in Calls : ConnectDone(p)
  \/ Kill
  \/ HealthStart(FALSE)
  \/ HealthProbe
  \/ HealthDone

\* The manager is used on its own: the orchestrator's variables stay put.
MgrInit0 == Init /\ mcpClients = {}

MgrSpec == MgrInit0 /\ [][MgrNext]_vars

\* One operation of the manager at a time (each call is awaited before the
\* next is made); the environment may still kill a server at any moment.
SeqMgrNext ==
  \/ \E p \in Calls : GetClientStart(p, TRUE)
  \/ \E p \in Calls : ProbeDone(p)
  \/ \E p \in Calls : ConnectDone(p)
  \/ Kill
  \/ HealthStart(TRUE)
  \/ HealthProbe
  \/ HealthDone

SeqMgrSpec == MgrInit0 /\ [][SeqMgrNext]_vars

(***************************************************************************)
(* disconnectAll                                                           *)
(***************************************************************************)
\* The registry entries: Array.from(this.clients.entries()).
Entries(reg) == [n \in {m \in DOMAIN reg : reg[m] # NoClient} |-> reg[n]]

\* MCPClient.disconnect: closes the client and the transport; an error of
\* close() is caught and logged, and the transport is left as it was.
MCPClient_disconnect(ts, closes) ==
  [threw |-> FALSE, logged |-> ~closes, ts |-> IF closes THEN "closed" ELSE ts]

\* Variant: the registry is left as it is.
clearClients_Keep(reg) == reg

\* this.clients.clear()
clearClients(reg) == [n \in DOMAIN reg |-> NoClient]

\* disconnectAll up to Promise.allSettled: the flag is set and disconnect()
\* is called on every entry (each call runs up to its first await).
disconnectAllBegin ==
  /\ dpc = "idle"
  /\ isShuttingDown' = TRUE
  /\ dpc' = "running"
  /\ dsnap' = Entries(clients)
  /\ dpending' = DOMAIN Entries(clients)
  /\ UNCHANGED <<clients, tstate, cpc, cname, cclient, cret, hpc, health, derrors>>
  /\ UNCHANGED avars

\* disconnectAll called by a user of the manager.
DisconnectAllStart ==
  /\ disconnectAllBegin
  /\ UNCHANGED <<gvars, fvars, ovars, signal>>

\* The disconnect() of one entry settles.
DisconnectSettle ==
  /\ dpc = "running"
  /\ \E n \in dpending : \E closes \in BOOLEAN :
       LET r == MCPClient_disconnect(tstate[dsnap[n]], closes)
       IN  /\ tstate' = [tstate EXCEPT ![dsnap[n]] = r.ts]
           /\ derrors' = IF r.logged THEN derrors \cup {n} ELSE derrors
           /\ dpending' = dpending \ {n}
  /\ UNCHANGED <<clients, isShuttingDown, cpc, cname, cclient, cret, hpc, health,
                 dpc, dsnap>>
  /\ UNCHANGED avars
  /\ UNCHANGED <<gvars, fvars, ovars, signal>>

\* Promise.allSettled resolved: the registry is cleared and disconnectAll
\* returns.
DisconnectAllDone ==
  /\ dpc = "running"
  /\ dpending = {}
  /\ clients' = clearClients(clients)
  /\ dpc' = "returned"
  /\ UNCHANGED <<tstate, isShuttingDown, cpc, cname, cclient, cret, hpc, health,
                 dsnap, dpending, derrors>>
  /\ UNCHANGED avars
  /\ UNCHANGED <<gvars, fvars, ovars, signal>>

\* The manager with concurrent getClient callers and one disconnectAll.
ShutdownNext ==
  \/ \E p \in Calls : GetClientStart(p, FALSE)
  \/ \E p \in Calls : ProbeDone(p)
  \/ \E p \in Calls : ConnectDone(p)
  \/ Kill
  \/ DisconnectAllStart
  \/ DisconnectSettle
  \/ DisconnectAllDone

ShutdownSpec == MgrInit0 /\ [][ShutdownNext]_vars

(***************************************************************************)
(* connectAll                                                              *)
(***************************************************************************)
\* Variant: every attempt is reported as a success.
connectionResult_AlwaysSuccess(settled) == TRUE

\* The value of one connection promise: success is true when getClient
\* returned and false when it threw (the catch of the map callback).
connectionResult(settled) == settled = "returned"

\* connectAll up to Promise.allSettled: getClient is called for every server
\* of getAvailableServers(), each call running up to its first await before
\* the next is made.
ConnectAllStart ==
  /\ apc = "idle"
  /\ \E f \in [ManagerServers -> {p \in Calls : cpc[p] = "idle"}] :
       /\ \A n, m \in ManagerServers : f[n] = f[m] => n = m
       /\ LET mine == {f[n] : n \in ManagerServers}
               nameOf(p) == CHOOSE n \in ManagerServers : f[n] = p
               probes(p) == RegistryHas(clients, nameOf(p))
           IN  /\ acalls' = f
               /\ cname' = [p \in Calls |-> IF p \in mine THEN nameOf(p) ELSE cname[p]]
               /\ cpc' = [p \in Calls |->
                            IF p \notin mine THEN cpc[p]
                            ELSE IF isShuttingDown THEN "failed"
                            ELSE IF probes(p) THEN "probe" ELSE "connect"]
               /\ cclient' = [p \in Calls |->
                                IF p \notin mine \/ isShuttingDown THEN cclient[p]
                                ELSE IF probes(p) THEN clients[nameOf(p)] ELSE p]
               /\ tstate' = [p \in Calls |->
                               IF p \in mine /\ ~isShuttingDown /\ ~probes(p)
                               THEN "connecting" ELSE tstate[p]]
  /\ apc' = "running"
  /\ UNCHANGED <<clients, isShuttingDown, cret, hpc, health, aresults>>
  /\ UNCHANGED dvars
  /\ UNCHANGED <<gvars, fvars, ovars, signal>>

\* Promise.allSettled resolved: every getClient call of connectAll settled.
ConnectAllDone ==
  /\ apc = "running"
  /\ \A n \in ManagerServers : cpc[acalls[n]] \in {"returned", "failed"}
  /\ aresults' = [n \in ManagerServers |-> connectionResult(cpc[acalls[n]])]
  /\ apc' = "returned"
  /\ UNCHANGED <<clients, tstate, isShuttingDown, cpc, cname, cclient, cret, hpc,
                 health, acalls>>
  /\ UNCHANGED dvars
  /\ UNCHANGED <<gvars, fvars, ovars, signal>>

\* connectAll beside other getClient callers of the shared manager.
ConnectAllNext ==
  \/ \E p \in Calls : GetClientStart(p, FALSE)
  \/ \E p \in Calls : ProbeDone(p)
  \/ \E p \in Calls : ConnectDone(p)
  \/ Kill
  \/ ConnectAllStart
  \/ ConnectAllDone

ConnectAllSpec == MgrInit0 /\ [][ConnectAllNext]_vars

(***************************************************************************)
(* The helpers called on their own, on arguments the graph may pass them   *)
(***************************************************************************)
\* The symbol lists extractSymbolsFromQuery can return.
SymbolLists ==
  {extractSymbolsFromQuery(q) : q \in SUBSET {SymbolKeys[i] : i \in 1..Len(SymbolKeys)}}

\* planExecution on a state with the given symbols, the Planner succeeding
\* or failing.
PlanExecutionCall ==
  /\ fpc = "start"
  /\ \E symbols \in SymbolLists : \E planned \in PlannerOutcomes :
       /\ fin' = [op |-> "planExecution", symbols |-> symbols, ok |-> planned.ok]
       /\ fout' = planExecution([symbols |-> symbols], planned)
  /\ fpc' = "done"
  /\ UNCHANGED <<gvars, mvars, ovars>>

\* JSON.stringify of a step: a key whose value is undefined is left out.
stringifyStep(step) ==
  [k \in {f \in DOMAIN step :
            /\ ~(f = "mcpServer" /\ step.mcpServer = "undefined")
            /\ ~(f = "result" /\ step.result = NoResult)} |-> step[k]]

\* JSON.stringify of a plan.
stringifyPlan(plan) ==
  [steps |-> [i \in 1..Len(plan.steps) |-> stringifyStep(plan.steps[i])],
   analysisType |-> plan.analysisType, priority |-> plan.priority]

StepKeysRequired == {"id", "toolName", "parameters", "description"}

\* Variant: the optional mcpServer is not read back.
parseStepSchema_DropServer(json) ==
  [id |-> json.id, toolName |-> json.toolName, parameters |-> json.parameters,
   description |-> json.description,
   completed |-> IF "completed" \in DOMAIN json THEN json.completed ELSE FALSE,
   mcpServer |-> "undefined",
   targetSymbol |-> IF "targetSymbol" \in DOMAIN json THEN json.targetSymbol ELSE "",
   result |-> NoResult]

\* The step object of ExecutionPlanSchema applied to a parsed JSON object
\* that has the required keys: defaults are filled in, mcpServer is
\* optional, keys the schema does not name (result) are stripped.
parseStepSchema(json) ==
  [id |-> json.id, toolName |-> json.toolName, parameters |-> json.parameters,
   description |-> json.description,
   completed |-> IF "completed" \in DOMAIN json THEN json.completed ELSE FALSE,
   mcpServer |-> IF "mcpServer" \in DOMAIN json THEN json.mcpServer ELSE "undefined",
   targetSymbol |-> IF "targetSymbol" \in DOMAIN json THEN json.targetSymbol ELSE "",
   result |-> NoResult]

\* ExecutionPlanSchema.parse(JSON.parse(text)): throws when a step lacks a
\* required key or names a server outside the enum.
ExecutionPlanSchema_parse(json) ==
  IF \E i \in 1..Len(json.steps) :
       \/ ~(StepKeysRequired \subseteq DOMAIN json.steps[i])
       \/ /\ "mcpServer" \in DOMAIN json.steps[i]
          /\ json.steps[i].mcpServer \notin {"crypto", "news", "stock"}
  THEN [threw |-> TRUE]
  ELSE [threw |-> FALSE,
        plan |-> [steps |-> [i \in 1..Len(json.steps) |-> parseStepSchema(json.steps[i])],
                  analysisType |-> json.analysisType, priority |-> json.priority]]

\* A fallback plan is written as JSON and read back through the schema.
RoundTripCall ==
  /\ fpc = "start"
  /\ \E symbols \in SymbolLists :
       /\ fin' = [op |-> "roundTrip", plan |-> FallbackPlan(symbols)]
       /\ fout' = ExecutionPlanSchema_parse(stringifyPlan(FallbackPlan(symbols)))
  /\ fpc' = "done"
  /\ UNCHANGED <<gvars, mvars, ovars>>

\* normalizeSymbol called on a string.
NormalizeSymbolCall ==
  /\ fpc = "start"
  /\ \E symbol \in Strings :
       /\ fin' = [op |-> "normalizeSymbol", symbol |-> symbol]
       /\ fout' = [threw |-> FALSE, value |-> normalizeSymbol(symbol)]
  /\ fpc' = "done"
  /\ UNCHANGED <<gvars, mvars, ovars>>

\* The parameters a Planner step may carry.
StepParameterSets ==
  { [k \in {} |-> ""], [symbol |-> "Btc"], [days |-> "7", symbol |-> "PEPE"] }

\* executeStep: the parameters passed to executeTool for a step.
StepParameters(step) ==
  IF step.toolName = "search_news"
  THEN [query |-> <<step.targetSymbol, "cryptocurrency news">>,
        symbol |-> step.targetSymbol]
  ELSE [k \in DOMAIN step.parameters \cup {"symbol"} |->
          IF k = "symbol" THEN normalizeSymbol(step.targetSymbol)
          ELSE step.parameters[k]]

\* executeStep up to its executeTool call, on a step of any tool, target
\* symbol and parameters.
StepParametersCall ==
  /\ fpc = "start"
  /\ \E toolName \in {"get_crypto_price", "get_market_data", "search_news"} :
     \E targetSymbol \in Strings : \E parameters \in StepParameterSets :
       LET step == [toolName |-> toolName, targetSymbol |-> targetSymbol,
                    parameters |-> parameters]
       IN  /\ fin' = [op |-> "executeStep", step |-> step]
           /\ fout' = [threw |-> FALSE, value |-> StepParameters(step)]
  /\ fpc' = "done"
  /\ UNCHANGED <<gvars, mvars, ovars>>

\* What the LLM's JSON may hold under confidence: nothing, a number inside
\* or outside [0, 1], or a value that is no number.
ConfidenceChoices ==
  {[present |-> FALSE]} \cup
  {[present |-> TRUE, value |-> v] :
     v \in {Num(0 - 20), Num(0), Num(90), Num(100), Num(150), NotANumber}}

\* What it may hold under recommendation: nothing, or a word inside or
\* outside the enum.
RecommendationChoices == {"absent", "buy", "sell", "strong"}

JsonFields(r, c) ==
  CASE r = "absent" /\ ~c.present -> [k \in {} |-> TRUE]
    [] r = "absent" /\ c.present -> [confidence |-> c.value]
    [] r # "absent" /\ ~c.present -> [recommendation |-> r]
    [] OTHER -> [recommendation |-> r, confidence |-> c.value]

\* The answers of the analysis LLM.
LlmResponses ==
  {LlmThrows, LlmText} \cup
  {LlmJson(JsonFields(r, c)) : r \in RecommendationChoices, c \in ConfidenceChoices}

\* performComprehensiveAnalysis called on a decoded step result.
AnalysisCall ==
  /\ fpc = "start"
  /\ \E hasSymbol \in BOOLEAN :
     \E toolName \in {"get_crypto_price", "get_market_data", "search_news"} :
     \E llm \in LlmResponses :
       /\ fin' = [op |-> "performComprehensiveAnalysis", hasSymbol |-> hasSymbol,
                  toolName |-> toolName, targetSymbol |-> "BTC", llm |-> llm]
       /\ fout' = performComprehensiveAnalysis([hasSymbol |-> hasSymbol], toolName,
                                               "BTC", llm)
  /\ fpc' = "done"
  /\ UNCHANGED <<gvars, mvars, ovars>>

\* What the result of a completed step may be: missing, a payload with a
\* symbol, a text that is no JSON, the error executeStep stored, an empty
\* payload.
StepResultChoices ==
  {NoResult} \cup
  {[kind |-> "content", payload |-> p, error |-> IF p = "error" THEN "call failed"
                                                 ELSE NoError] :
     p \in {"data", "text", "error", "empty"}}

\* An analysis made for an earlier step.
EarlierAnalysis ==
  [isNull |-> FALSE, symbol |-> "ETH", recommendation |-> "sell", confidence |-> 70,
   reasoning |-> "llm"]

\* The states analyze_data may be entered with: the fallback plan of one
\* symbol with currentStep steps done, the last of them with any result.
AnalyzeDataStates ==
  { [executionPlan |->
       [FallbackPlan(<<"BTC">>) EXCEPT
          !.steps = [i \in 1..3 |->
                       IF i > c THEN FallbackPlan(<<"BTC">>).steps[i]
                       ELSE [FallbackPlan(<<"BTC">>).steps[i] EXCEPT
                               !.completed = TRUE,
                               !.result = IF i = c THEN r
                                          ELSE [kind |-> "content", payload |-> "data",
                                                error |-> NoError]]]],
     currentStep |-> c,
     analysisResults |-> earlier] :
    c \in 0..3, r \in StepResultChoices, earlier \in {<<>>, <<EarlierAnalysis>>} }

\* The analyze_data node run on a state: its update, the state the update is
\* merged into, and the node that runs next.
AnalyzeDataCall ==
  /\ fpc = "start"
  /\ \E s \in AnalyzeDataStates : \E llm \in LlmResponses :
       LET update == analyzeData(s, llm)
       IN  /\ fin' = [op |-> "analyzeData", state |-> s, llm |-> llm]
           /\ fout' = [threw |-> FALSE, update |-> update,
                       state |-> ApplyUpdate(s, update), next |-> AfterAnalyzeData]
  /\ fpc' = "done"
  /\ UNCHANGED <<gvars, mvars, ovars>>

FnNext ==
  \/ AnalysisCall
  \/ AnalyzeDataCall
  \/ PlanExecutionCall
  \/ RoundTripCall
  \/ NormalizeSymbolCall
  \/ StepParametersCall

FnSpec == MgrInit0 /\ [][FnNext]_vars

(***************************************************************************)
(* executeTool of the orchestrator's MCPClientManager, called by the       *)
(* nodes of analyzeQuery sessions that share one analyzer                  *)
(***************************************************************************)
\* The servers of the executeTool calls execute_step makes for a plan.
PlanServers(plan) == [i \in 1..Len(plan.steps) |-> ServerOf(plan.steps[i])]

\* The calls gatherMarketContext makes: get_financial_news on the news
\* server, once per symbol.
GatherServers(symbols) == [i \in 1..Len(symbols) |-> "news"]

\* analyzeQuery is called: parse_query extracts the symbols and
\* gather_context starts its loop over them.
SessionBegin(s) ==
  /\ scaller[s] = "idle"
  /\ \E q \in Queries :
       /\ ssymbols' = [ssymbols EXCEPT ![s] = extractSymbolsFromQuery(q)]
       /\ sleft' = [sleft EXCEPT ![s] = GatherServers(extractSymbolsFromQuery(q))]
  /\ scaller' = [scaller EXCEPT ![s] = "gather_context"]
  /\ UNCHANGED swait
  /\ UNCHANGED <<gvars, mvars, fvars, lvars, xvars>>

\* executeTool up to its await: the client is looked up and callTool is
\* sent; nothing waits for an earlier call on the same client. With no
\* client it throws: gather_context abandons its loop, execute_step stores
\* the error and the loop goes on.
ExecuteToolStart(s) ==
  /\ scaller[s] \in {"gather_context", "execute_step"}
  /\ swait[s] = "none"
  /\ sleft[s] # <<>>
  /\ IF executeTool(mcpClients, Head(sleft[s]), "data").threw
     THEN /\ sleft' = [sleft EXCEPT ![s] = IF scaller[s] = "gather_context" THEN <<>>
                                          ELSE Tail(sleft[s])]
          /\ UNCHANGED swait
     ELSE /\ swait' = [swait EXCEPT ![s] = Head(sleft[s])]
          /\ UNCHANGED sleft
  /\ UNCHANGED <<ssymbols, scaller>>
  /\ UNCHANGED <<gvars, mvars, fvars, lvars, xvars>>

\* The callTool a session awaits settles.
ExecuteToolSettle(s) ==
  /\ swait[s] # "none"
  /\ \E outcome \in ProviderOutcomes :
       sleft' = [sleft EXCEPT ![s] =
                   IF executeTool(mcpClients, swait[s], outcome).threw
                      /\ scaller[s] = "gather_context"
                   THEN <<>> ELSE Tail(sleft[s])]
  /\ swait' = [swait EXCEPT ![s] = "none"]
  /\ UNCHANGED <<ssymbols, scaller>>
  /\ UNCHANGED <<gvars, mvars, fvars, lvars, xvars>>

\* The node has made its calls: gather_context is followed by
\* plan_execution and the execute_step loop over the plan, the loop by the
\* end of the session.
NodeReturn(s) ==
  /\ scaller[s] \in {"gather_context", "execute_step"}
  /\ swait[s] = "none"
  /\ sleft[s] = <<>>
  /\ IF scaller[s] = "gather_context"
     THEN /\ \E planned \in PlannerOutcomes :
               sleft' = [sleft EXCEPT ![s] =
                           PlanServers(planExecution([symbols |-> ssymbols[s]],
                                                     planned).executionPlan)]
          /\ scaller' = [scaller EXCEPT ![s] = "execute_step"]
     ELSE /\ scaller' = [scaller EXCEPT ![s] = "done"]
          /\ UNCHANGED sleft
  /\ UNCHANGED <<ssymbols, swait>>
  /\ UNCHANGED <<gvars, mvars, fvars, lvars, xvars>>

ToolNext ==
  \/ \E s \in Sessions : SessionBegin(s)
  \/ \E s \in Sessions : ExecuteToolStart(s)
  \/ \E s \in Sessions : ExecuteToolSettle(s)
  \/ \E s \in Sessions : NodeReturn(s)

ToolSpec == Init /\ [][ToolNext]_vars

(***************************************************************************)
(* The life of the orchestrator's MCPClientManager: initialize, called by  *)
(* the cli-runner, and cleanup                                             *)
(***************************************************************************)
\* What a server process may do when it is started: connect and list its
\* tools, fail the connect, or connect and fail the listTools request.
ProviderBehaviours == {"ok", "no_connect", "no_tools"}

\* The servers a client can be connected to.
Connectable == {n \in Servers : provider[n] # "no_connect"}

\* main: new IntegratedCryptoAnalyzer(...), then await analyzer.initialize():
\* MCPClientManager.initialize enters its loop over config.mcpServers.
RunnerInitialize ==
  /\ runner = "start"
  /\ ipc = "idle"
  /\ runner' = "initialize"
  /\ ipc' = "connect"
  /\ iat' = 1
  /\ otransport' = [otransport EXCEPT ![ServerOrder[1]] = "open"]
  /\ UNCHANGED <<provider, mcpClients, mcpTransports, toolMetadata, kpc, kleft,
                 kattempted>>
  /\ UNCHANGED <<pc, state, lastUpdate, executeCalls, toolCalls, lastCall, session>>
  /\ UNCHANGED <<mvars, fvars, tvars, xvars>>

\* connectToMCPServer: client.connect(transport) settled. An error leaves
\* connectToMCPServer and the loop, and initialize rethrows it.
ConnectSettle ==
  /\ ipc = "connect"
  /\ ipc' = IF provider[ServerOrder[iat]] = "no_connect" THEN "rejected" ELSE "listTools"
  /\ UNCHANGED <<provider, runner, iat, mcpClients, mcpTransports, toolMetadata,
                 otransport, kpc, kleft, kattempted>>
  /\ UNCHANGED <<pc, state, lastUpdate, executeCalls, toolCalls, lastCall, session>>
  /\ UNCHANGED <<mvars, fvars, tvars, xvars>>

\* connectToMCPServer: client.listTools() settled. The tools, the client and
\* the transport are registered and the loop goes to the next server, or
\* initialize resolves; an error is rethrown by initialize.
ListToolsSettle ==
  /\ ipc = "listTools"
  /\ LET n == ServerOrder[iat]
     IN  IF provider[n] = "no_tools"
         THEN /\ ipc' = "rejected"
              /\ UNCHANGED <<iat, mcpClients, mcpTransports, toolMetadata, otransport>>
         ELSE /\ toolMetadata' = toolMetadata \cup {n}
              /\ mcpClients' = mcpClients \cup {n}
              /\ mcpTransports' = mcpTransports \cup {n}
              /\ IF iat < Len(ServerOrder)
                 THEN /\ iat' = iat + 1
                      /\ ipc' = "connect"
                      /\ otransport' = [otransport EXCEPT ![ServerOrder[iat + 1]] = "open"]
                 ELSE /\ ipc' = "resolved"
                      /\ UNCHANGED <<iat, otransport>>
  /\ UNCHANGED <<provider, runner, kpc, kleft, kattempted>>
  /\ UNCHANGED <<pc, state, lastUpdate, executeCalls, toolCalls, lastCall, session>>
  /\ UNCHANGED <<mvars, fvars, tvars, xvars>>

\* main after analyzer.initialize() settled: healthCheck is awaited next, or
\* the catch prints the error and calls process.exit(1).
RunnerInitialized ==
  /\ runner = "initialize"
  /\ ipc \in {"resolved", "rejected"}
  /\ runner' = IF ipc = "resolved" THEN "healthCheck" ELSE "exit1"
  /\ UNCHANGED <<provider, ipc, iat, mcpClients, mcpTransports, toolMetadata,
                 otransport, kpc, kleft, kattempted>>
  /\ UNCHANGED <<pc, state, lastUpdate, executeCalls, toolCalls, lastCall, session>>
  /\ UNCHANGED <<mvars, fvars, tvars, xvars>>

\* main: healthCheck returned (it catches every error), analyzeQuery is
\* awaited; analyzeQuery resolved (it catches every error), main is over.
RunnerGoesOn ==
  /\ runner \in {"healthCheck", "analyzeQuery"}
  /\ runner' = IF runner = "healthCheck" THEN "analyzeQuery" ELSE "finished"
  /\ UNCHANGED <<provider, ipc, iat, mcpClients, mcpTransports, toolMetadata,
                 otransport, kpc, kleft, kattempted>>
  /\ UNCHANGED <<pc, state, lastUpdate, executeCalls, toolCalls, lastCall, session>>
  /\ UNCHANGED <<mvars, fvars, tvars, xvars>>

\* The keys of a map of the manager, in the order they were inserted.
MapKeys(registered) == SelectKeys(ServerOrder, registered)

\* cleanup up to its first await: the loop over mcpTransports starts.
CleanupStart ==
  /\ kpc = "idle"
  /\ ipc \in {"resolved", "rejected"}
  /\ kpc' = "running"
  /\ kleft' = MapKeys(mcpTransports)
  /\ UNCHANGED <<provider, runner, ipc, iat, mcpClients, mcpTransports, toolMetadata,
                 otransport, kattempted>>
  /\ UNCHANGED <<pc, state, lastUpdate, executeCalls, toolCalls, lastCall, session>>
  /\ UNCHANGED <<mvars, fvars, tvars, xvars>>

\* cleanup: transport.close() of the next transport is called and settles.
\* When it throws, the catch logs the error and cleanup returns.
CleanupClose ==
  /\ kpc = "running"
  /\ kleft # <<>>
  /\ kattempted' = kattempted \cup {Head(kleft)}
  /\ \E closes \in BOOLEAN :
       IF closes
       THEN /\ otransport' = [otransport EXCEPT ![Head(kleft)] = "closed"]
            /\ kleft' = Tail(kleft)
            /\ UNCHANGED kpc
       ELSE /\ kpc' = "returned"
            /\ UNCHANGED <<otransport, kleft>>
  /\ UNCHANGED <<provider, runner, ipc, iat, mcpClients, mcpTransports, toolMetadata>>
  /\ UNCHANGED <<pc, state, lastUpdate, executeCalls, toolCalls, lastCall, session>>
  /\ UNCHANGED <<mvars, fvars, tvars, xvars>>

\* cleanup: the loop is over, the maps and the tool registry are cleared.
CleanupDone ==
  /\ kpc = "running"
  /\ kleft = <<>>
  /\ mcpClients' = {}
  /\ mcpTransports' = {}
  /\ toolMetadata' = {}
  /\ kpc' = "returned"
  /\ UNCHANGED <<provider, runner, ipc, iat, otransport, kleft, kattempted>>
  /\ UNCHANGED <<pc, state, lastUpdate, executeCalls, toolCalls, lastCall, session>>
  /\ UNCHANGED <<mvars, fvars, tvars, xvars>>

LifeNext ==
  \/ RunnerInitialize
  \/ ConnectSettle
  \/ ListToolsSettle
  \/ RunnerInitialized
  \/ RunnerGoesOn
  \/ CleanupStart
  \/ CleanupClose
  \/ CleanupDone

\* A fresh manager, and server processes that behave in any way.
LifeStart ==
  /\ GraphInit /\ mcpClients = {}
  /\ MgrInit /\ FnInit /\ ToolInit /\ LifeInit0 /\ WorkflowInit /\ ChatInit
  /\ provider \in [Servers -> ProviderBehaviours]

LifeSpec == LifeStart /\ [][LifeNext]_vars

(***************************************************************************)
(* AnalysisWorkflow: stock, crypto and news nodes in one superstep, then   *)
(* coordination                                                            *)
(***************************************************************************)
\* Every channel of AgentStateAnnotation has the reducer
\* (state, update) => update || state; objects and arrays are truthy, so a
\* key present in an update replaces the channel value.
AgentStateReducer(x, y) == y

ReduceUpdate(s, u) ==
  [k \in DOMAIN s |-> IF k \in DOMAIN u THEN AgentStateReducer(s[k], u[k]) ELSE s[k]]

\* The updates of one superstep applied to the channels in the given order.
RECURSIVE ReduceAll(_, _)
ReduceAll(s, updates) ==
  IF updates = <<>> THEN s
  ELSE ReduceAll(ReduceUpdate(s, Head(updates)), Tail(updates))

\* { ...state.agentStatus, [agent]: status }
SpreadStatus(status, agent, value) ==
  [k \in DOMAIN status \cup {agent} |-> IF k = agent THEN value ELSE status[k]]

\* The symbols of a run (options.symbols split at the commas: never empty).
WorkflowSymbols == {<<"AAPL">>, <<"bitcoin">>, <<"AAPL", "bitcoin">>}

\* The state main hands to invoke: every agent pending, no error.
WorkflowInitialState(symbols) ==
  [symbols |-> symbols,
   agentStatus |-> [a \in Agents |-> "pending"],
   errors |-> <<>>]

SeqRange(q) == {q[i] : i \in 1..Len(q)}

filterStockSymbols(symbols) == SeqRange(symbols) \ {"bitcoin", "ethereum"}

filterCryptoSymbols(symbols) ==
  SeqRange(symbols) \cap {"bitcoin", "ethereum", "cardano", "solana"}

AgentError(agent) ==
  CASE agent = "stock" -> "Stock analysis failed"
    [] agent = "crypto" -> "Crypto analysis failed"
    [] agent = "news" -> "News analysis failed"
    [] OTHER -> "Coordination failed"

\* What analyze of an agent returns when its catch ran.
AgentFailed(s, agent) ==
  [errors |-> Append(s.errors, AgentError(agent)),
   agentStatus |-> SpreadStatus(s.agentStatus, agent, "failed")]

\* StockAgent.analyze: the symbols it could analyse (a symbol whose data
\* cannot be had is logged and left out), or the failure update.
StockAgent_analyze(s) ==
  {[stockAnalysis |-> done,
    agentStatus |-> SpreadStatus(s.agentStatus, "stock", "completed")] :
     done \in SUBSET filterStockSymbols(s.symbols)}
  \cup {AgentFailed(s, "stock")}

CryptoAgent_analyze(s) ==
  {[cryptoAnalysis |-> done,
    agentStatus |-> SpreadStatus(s.agentStatus, "crypto", "completed")] :
     done \in SUBSET filterCryptoSymbols(s.symbols)}
  \cup {AgentFailed(s, "crypto")}

NewsAgent_analyze(s) ==
  {[newsAnalysis |-> [articles |-> TRUE],
    agentStatus |-> SpreadStatus(s.agentStatus, "news", "completed")],
   AgentFailed(s, "news")}

AgentAnalyze(agent, s) ==
  CASE agent = "stock" -> StockAgent_analyze(s)
    [] agent = "crypto" -> CryptoAgent_analyze(s)
    [] OTHER -> NewsAgent_analyze(s)

\* Coordinator.analyze: the report carries the status it reads for each
\* agent (state.agentStatus?.stock || 'pending').
CoordinatorReport(s) ==
  [agentPerformance |->
     [a \in Agents |-> IF a \in DOMAIN s.agentStatus THEN s.agentStatus[a]
                       ELSE "pending"]]

Coordinator_analyze(s) ==
  {[finalReport |-> CoordinatorReport(s),
    agentStatus |-> SpreadStatus(s.agentStatus, "coordinator", "completed")],
   AgentFailed(s, "coordinator")}

\* The orders in which the writes of the three tasks of a superstep can be
\* applied to a channel.
TaskOrders ==
  {o \in [1..3 -> Agents] : \A i, j \in 1..3 : o[i] = o[j] => i = j}

\* compiledWorkflow.invoke(initialState): the input is written to the
\* channels and the three nodes after __start__ are started on that state.
WorkflowInvoke ==
  /\ wpc = "idle"
  /\ \E symbols \in WorkflowSymbols :
       /\ wstate' = ReduceUpdate(AgentStateDefaults, WorkflowInitialState(symbols))
       /\ winput' = wstate'
  /\ wupdate' = [a \in Agents |-> Running]
  /\ wpc' = "agents"
  /\ UNCHANGED <<gvars, mvars, fvars, tvars, lvars, qvars>>

\* A node of the superstep returns the partial state of its agent, computed
\* on the state the superstep began with.  When it is the last of the three,
\* the updates are applied to the channels and the join edge starts
\* coordination.
AgentReturn(a) ==
  /\ wpc = "agents"
  /\ wupdate[a] = Running
  /\ \E u \in AgentAnalyze(a, winput) :
       /\ wupdate' = [wupdate EXCEPT ![a] = u]
       /\ IF \A b \in Agents \ {a} : wupdate[b] # Running
          THEN /\ \E order \in TaskOrders :
                    wstate' = ReduceAll(wstate,
                                [i \in 1..3 |-> wupdate'[order[i]]])
               /\ wpc' = "coordination"
          ELSE UNCHANGED <<wstate, wpc>>
  /\ UNCHANGED winput
  /\ UNCHANGED <<gvars, mvars, fvars, tvars, lvars, qvars>>

\* The coordination node returns and the run ends.
CoordinationReturn ==
  /\ wpc = "coordination"
  /\ \E u \in Coordinator_analyze(wstate) : wstate' = ReduceUpdate(wstate, u)
  /\ wpc' = "end"
  /\ UNCHANGED <<winput, wupdate>>
  /\ UNCHANGED <<gvars, mvars, fvars, tvars, lvars, qvars>>

WorkflowNext ==
  \/ WorkflowInvoke
  \/ \E a \in Agents : AgentReturn(a)
  \/ CoordinationReturn

WorkflowSpec == Init /\ [][WorkflowNext]_vars

(***************************************************************************)
(* The chat client: processUserRequest (LLM -> tool -> LLM)                *)
(***************************************************************************)
\* let maxIterations = 5
maxIterations == 5

\* What the assistant message of a round-trip is taken for: a tool call of a
\* registered tool, a tool call of a name that is not registered, or (no
\* JSON, or no use_tool action) the final answer; or ollama.chat rejects.
LlmReplies == {"use_tool", "unknown_tool", "final", "throws"}

\* How manager.executeTool settles.
ToolSettlements == {"result", "error"}

\* The top of the while loop with the conversation msgs: another round-trip
\* while iteration < maxIterations, otherwise the code after the loop.
LoopTop(msgs) ==
  /\ messages' = msgs
  /\ IF iteration < maxIterations
     THEN /\ iteration' = iteration + 1
          /\ llmCalls' = llmCalls + 1
          /\ qpc' = "llm"
          /\ UNCHANGED warned
     ELSE /\ warned' = (iteration >= maxIterations)
          /\ qpc' = "returned"
          /\ UNCHANGED <<iteration, llmCalls>>

\* processUserRequest is called: the conversation is the system message and
\* the user input, and the first round-trip is awaited.
ProcessUserRequest ==
  /\ qpc = "idle"
  /\ LoopTop(<<"system", "user">>)
  /\ UNCHANGED <<toolExecs, answered>>
  /\ UNCHANGED <<gvars, mvars, fvars, tvars, lvars, wvars>>

\* ollama.chat settles.
LlmSettle ==
  /\ qpc = "llm"
  /\ \E reply \in LlmReplies :
       CASE reply = "throws" ->
              /\ qpc' = "raised"
              /\ UNCHANGED <<iteration, messages, llmCalls, toolExecs, answered,
                             warned>>
         [] reply = "final" ->
              /\ answered' = TRUE
              /\ warned' = (iteration >= maxIterations)
              /\ qpc' = "returned"
              /\ UNCHANGED <<iteration, messages, llmCalls, toolExecs>>
         [] reply = "unknown_tool" ->
              /\ LoopTop(Append(messages, "unknown_tool"))
              /\ UNCHANGED <<toolExecs, answered>>
         [] OTHER ->
              /\ toolExecs' = toolExecs + 1
              /\ qpc' = "tool"
              /\ UNCHANGED <<iteration, messages, llmCalls, answered, warned>>
  /\ UNCHANGED <<gvars, mvars, fvars, tvars, lvars, wvars>>

\* manager.executeTool settles: its result, or the message of its error, is
\* pushed and the loop continues.
ToolSettle ==
  /\ qpc = "tool"
  /\ \E r \in ToolSettlements :
       LoopTop(Append(messages, IF r = "result" THEN "tool_result" ELSE "tool_error"))
  /\ UNCHANGED <<toolExecs, answered>>
  /\ UNCHANGED <<gvars, mvars, fvars, tvars, lvars, wvars>>

ChatNext ==
  \/ ProcessUserRequest
  \/ LlmSettle
  \/ ToolSettle

ChatSpec == Init /\ [][ChatNext]_vars

\* The awaited calls settle.
ChatFairSpec == ChatSpec /\ WF_vars(ChatNext)

(***************************************************************************)
(* A termination signal during a session                                   *)
(***************************************************************************)
\* The tools of the five steps of the plan of Scenario D.
ScenarioDTools ==
  <<"get_crypto_price", "get_market_data", "search_news", "get_crypto_price",
    "search_news">>

ScenarioDPlan ==
  [steps |-> [i \in 1..Len(ScenarioDTools) |->
                PlannedStep(CHOOSE t \in PlannerSteps : t.toolName = ScenarioDTools[i], i)],
   analysisType |-> "comprehensive", priority |-> 3]

\* planExecution when the Planner returns the plan of Scenario D.
PlanScenarioD ==
  /\ pc = "plan_execution"
  /\ RunNode(planExecution(state, [ok |-> TRUE, plan |-> ScenarioDPlan]), "execute_step")
  /\ UNCHANGED <<mcpClients, executeCalls, toolCalls, lastCall, session>>
  /\ UNCHANGED <<mvars, fvars, ovars>>

\* The SIGINT / SIGTERM handler up to its await: disconnectAll is called.
SignalHandler ==
  /\ ~signal.delivered
  /\ pc \notin {"idle", "exited"}
  /\ signal' = [delivered |-> TRUE, at |-> toolCalls]
  /\ disconnectAllBegin
  /\ UNCHANGED <<gvars, fvars, ovars>>

\* The handler after disconnectAll returned: process.exit(0).
ProcessExit ==
  /\ signal.delivered
  /\ dpc = "returned"
  /\ pc # "exited"
  /\ pc' = "exited"
  /\ UNCHANGED <<state, lastUpdate, mcpClients, executeCalls, toolCalls, lastCall,
                 session>>
  /\ UNCHANGED <<mvars, fvars, ovars>>

\* While the handler has nothing left to wait for but its own
\* continuations, no callback of the session runs before process.exit.
SessionMayRun == signal.delivered => dpending # {}

\* A node of the session's graph runs.
SessionStep ==
  /\ SessionMayRun
  /\ \/ AnalyzeQuery
     \/ ParseQuery
     \/ GatherContext
     \/ PlanScenarioD
     \/ ExecuteStep
     \/ AnalyzeData
     \/ SynthesizeResults
     \/ Resolve

\* The handler's disconnectAll returns.
HandlerDisconnected == signal.delivered /\ DisconnectAllDone

CancelNext ==
  \/ SessionStep
  \/ SignalHandler
  \/ HandlerDisconnected
  \/ ProcessExit

\* All three servers of the orchestrator are connected.
CancelInit == Init /\ mcpClients = {ServerOrder[i] : i \in 1..Len(ServerOrder)}

CancelSpec == CancelInit /\ [][CancelNext]_vars

(***************************************************************************)
(* Properties of the analysis graph                                        *)
(***************************************************************************)
PlanLen == Len(state.executionPlan.steps)
Synthesizing == pc \in {"synthesize_results", "END", "returned"}
Looping == pc \in {"execute_step", "analyze_data"}
StepResult(i) == state.executionPlan.steps[i].result

C2_FailureIsData ==
  [][(executeCalls' = executeCalls + 1 /\ lastCall'.called /\ lastCall'.threw) =>
       LET i == state.currentStep + 1
           before == state.executionPlan.steps
           after == state'.executionPlan.steps
       IN  /\ i <= Len(before)
           /\ Len(after) = Len(before)
           /\ after[i].completed
           /\ after[i].result.payload = "error"
           /\ after[i].result.error \in {"not available", "call failed"}
           /\ \A j \in 1..Len(before) : j # i => after[j] = before[j]
           /\ state'.currentStep = state.currentStep + 1
           /\ pc' = (IF i < Len(before) THEN "analyze_data" ELSE "synthesize_results")
    ]_vars

C2_Witness ==
  /\ pc = "returned"
  /\ PlanLen = 3
  /\ StepResult(1).payload = "error" /\ StepResult(1).error = "call failed"
  /\ StepResult(2).payload = "data"
  /\ StepResult(3).payload = "error" /\ StepResult(3).error = "not available"
  /\ state.currentStep = 3

ScenarioA ==
  /\ PlanLen = 2
  /\ state.executionPlan.steps[1].targetSymbol = state.executionPlan.steps[2].targetSymbol
  /\ StepResult(1).payload = "error"
  /\ StepResult(2).payload = "data"
  /\ state.executionPlan.steps[2].toolName \in {"get_crypto_price", "get_market_data"}

SessionErrors == IF session.error = NoError THEN 0 ELSE 1

IsSummary(x) ==
  /\ DOMAIN x = {"overallSentiment", "keyFindings", "recommendations", "summary",
                 "confidenceScore"}
  /\ x.overallSentiment \in {"bullish", "bearish", "neutral"}

C9_ScenarioA ==
  (pc = "returned" /\ ScenarioA) =>
    /\ Len(session.results) = 1
    /\ SessionErrors = 1
    /\ IsSummary(session.summary)

\* C10: the Synthesizer always returns a summary and never raises: for any
\* list of analysis results (the empty list too) and any LLM outcome the
\* synthesize_results node writes finalSummary, and analyzeQuery resolves
\* with a summary.
C10_AlwaysSummary ==
  /\ pc = "END" => "finalSummary" \in DOMAIN lastUpdate
  /\ pc \in {"END", "returned"} => IsSummary(state.finalSummary)
  /\ session.resolved => IsSummary(session.summary)
  /\ pc = "returned" => session.resolved

C10_Witness ==
  /\ pc = "returned"
  /\ session.resolved
  /\ session.results = <<>>
  /\ session.summary.summary = "computed"
  /\ session.summary.confidenceScore.den = 0

(***************************************************************************)
(* Properties of the client manager                                        *)
(***************************************************************************)
Live(c) == tstate[c] \in {"connecting", "open"}

\* C4 (as stated): under any interleaving of concurrent getClient callers at
\* most one transport is being created or open per provider name, and every
\* open transport is the registered one.
C4_OneTransportPerName ==
  /\ \A n \in ManagerServers :
       Cardinality({c \in Calls : cname[c] = n /\ Live(c)}) <= 1
  /\ \A c \in Calls : tstate[c] = "open" => clients[cname[c]] = c

\* C5: for sequential callers, a getClient call that finds a healthy
\* connection registered for its name probes it, returns that same client
\* and creates no transport; a transport is created only when no entry
\* exists or the existing one failed its probe.
C5_SequentialIdempotent ==
  [][\A p \in Calls :
       /\ (/\ cpc[p] = "idle" /\ cpc'[p] # "idle" /\ ~isShuttingDown
           /\ clients[cname'[p]] # NoClient
           /\ tstate[clients[cname'[p]]] = "open")
          => (/\ cpc'[p] = "probe"
              /\ cclient'[p] = clients[cname'[p]]
              /\ tstate' = tstate /\ clients' = clients)
       /\ (cpc[p] = "probe" /\ cpc'[p] # "probe" /\ tstate[cclient[p]] = "open")
          => (/\ cpc'[p] = "returned"
              /\ cret'[p] = cclient[p]
              /\ clients'[cname[p]] = cret'[p]
              /\ tstate' = tstate /\ clients' = clients)
       /\ (tstate[p] = "unborn" /\ tstate'[p] # "unborn")
          => \/ clients[cname'[p]] = NoClient
             \/ cpc[p] = "probe" /\ tstate[cclient[p]] # "open"
    ]_vars

C5_Witness ==
  \E p, q \in Calls :
    /\ p # q
    /\ cpc[p] = "returned" /\ cpc[q] = "returned"
    /\ cname[p] = cname[q]
    /\ cret[p] = p /\ cret[q] = p
    /\ tstate[p] = "open" /\ tstate[q] = "unborn"
    /\ clients[cname[p]] = p

\* C6: when the handshake of a connect attempt fails, getClient fails and
\* the attempt is not registered: the registry has no entry for the name
\* afterwards and is otherwise unchanged; no registered client ever has a
\* transport whose handshake failed or is still under way.
C6_FailedConnectNotRegistered ==
  /\ [][\A p \in Calls :
          (cpc[p] = "connect" /\ tstate'[p] = "failed")
            => (/\ cpc'[p] = "failed"
                /\ cret'[p] = NoClient
                /\ clients' = clients
                /\ clients'[cname[p]] = NoClient)]_vars
  /\ [](\A n \in ManagerServers :
          clients[n] # NoClient => tstate[clients[n]] \in {"open", "dead", "closed"})

C6_Witness ==
  \E p, q \in Calls :
    /\ cpc[p] = "failed" /\ tstate[p] = "failed"
    /\ clients[cname[p]] = NoClient
    /\ cpc[q] = "returned" /\ cname[q] # cname[p]
    /\ clients[cname[q]] = q /\ tstate[q] = "open"

\* A step of healthCheck that probes the registered connection of n.
ProbedNow(n) == n \notin DOMAIN health /\ n \in DOMAIN health'

\* C7 (as stated), Scenario C: once a connected provider's process is
\* killed, the health check that probes it reports it unhealthy, and a
\* getClient call never returns the dead client: what it returns is
\* registered and has a working transport.
C7_ScenarioC ==
  [][/\ \A n \in ManagerServers :
          (ProbedNow(n) /\ tstate[clients[n]] = "dead") => ~health'[n]
     /\ \A p \in Calls :
          (InFlight(p) /\ cpc'[p] = "returned")
            => (tstate'[cret'[p]] = "open" /\ clients'[cname[p]] = cret'[p])
    ]_vars

\* C8 (as stated): when the discovery call of a health check fails for a
\* registered connection, healthCheck marks it unhealthy and evicts it from
\* the registry.
C8_EvictOnFailedProbe ==
  [][\A n \in ManagerServers :
       (ProbedNow(n) /\ tstate[clients[n]] # "open")
         => (~health'[n] /\ clients'[n] = NoClient)]_vars

(***************************************************************************)
(* Scenario B and the rest of the contract                                 *)
(***************************************************************************)
\* The session is over for a query with no known symbol and an empty plan.
ScenarioB ==
  /\ pc \in {"END", "returned"}
  /\ state.symbols = <<>>
  /\ PlanLen = 0

\* The fraction is the number 0.5 (den = 0 is NaN, which equals nothing).
IsHalf(c) == c.den # 0 /\ 2 * c.num = c.den

\* C11 (as stated), Scenario B: with zero extracted symbols and a plan of 0
\* steps no analysis result is produced and the summary is neutral, has
\* confidenceScore 0.5 and no key findings, on every path of
\* synthesizeResults but the one where the LLM supplies the fields itself.
C11_ScenarioB ==
  (ScenarioB /\ state.finalSummary.summary # "text")
    => /\ state.analysisResults = <<>>
       /\ state.finalSummary.overallSentiment = "neutral"
       /\ IsHalf(state.finalSummary.confidenceScore)
       /\ state.finalSummary.keyFindings = 0

ValidPlan(plan) ==
  /\ DOMAIN plan = {"steps", "analysisType", "priority"}
  /\ plan.analysisType \in {"technical", "fundamental", "sentiment", "comprehensive"}
  /\ plan.priority \in Nat
  /\ \A i \in 1..Len(plan.steps) :
       LET step == plan.steps[i]
       IN  /\ {"id", "toolName", "parameters", "description", "completed",
               "targetSymbol"} \subseteq DOMAIN step
           /\ step.completed \in BOOLEAN
           /\ step.mcpServer \in {"crypto", "news", "stock", "undefined"}
           /\ step.targetSymbol \in Strings

\* planExecution was called and the Planner failed.
PlannerFailed == fpc = "done" /\ fin.op = "planExecution" /\ ~fin.ok

\* The plan has, for every symbol in order, a price, a market and a news
\* step for that symbol, none of them completed, and meets the schema.
IsFallbackFor(plan, symbols) ==
  /\ Len(plan.steps) = 3 * Len(symbols)
  /\ \A i \in 1..Len(symbols) :
       /\ plan.steps[3 * i - 2].toolName = "get_crypto_price"
       /\ plan.steps[3 * i - 1].toolName = "get_market_data"
       /\ plan.steps[3 * i].toolName = "search_news"
       /\ \A j \in {3 * i - 2, 3 * i - 1, 3 * i} :
            /\ plan.steps[j].targetSymbol = symbols[i]
            /\ ~plan.steps[j].completed
  /\ ValidPlan(plan)

\* C14 (as stated): when the Planner fails planExecution returns the fallback
\* plan built from the symbols, and this plan is non-empty.
C14_FallbackNonEmpty ==
  PlannerFailed
    => (/\ DOMAIN fout = {"executionPlan"}
        /\ IsFallbackFor(fout.executionPlan, fin.symbols)
        /\ Len(fout.executionPlan.steps) > 0)

\* C14 (amended): when the Planner fails planExecution returns the fallback
\* plan built from the symbols: three steps per symbol, in order, valid
\* against the schema; it is non-empty exactly when there is a symbol.
C14_FallbackPlan ==
  PlannerFailed
    => (/\ DOMAIN fout = {"executionPlan"}
        /\ IsFallbackFor(fout.executionPlan, fin.symbols)
        /\ (Len(fout.executionPlan.steps) > 0 <=> fin.symbols # <<>>))

C14_Witness ==
  /\ PlannerFailed
  /\ Len(fin.symbols) = 2
  /\ Len(fout.executionPlan.steps) = 6
  /\ fout.executionPlan.steps[4].targetSymbol = fin.symbols[2]

StepFields ==
  {"id", "toolName", "parameters", "description", "completed", "mcpServer",
   "targetSymbol"}

\* C15: a fallback plan written as JSON and parsed with ExecutionPlanSchema
\* is the original plan: the same steps in the same order, equal in every
\* field of the schema, and the same analysisType and priority.
C15_FallbackRoundTrip ==
  (fpc = "done" /\ fin.op = "roundTrip")
    => (/\ ~fout.threw
        /\ Len(fout.plan.steps) = Len(fin.plan.steps)
        /\ \A i \in 1..Len(fin.plan.steps) : \A f \in StepFields :
             fout.plan.steps[i][f] = fin.plan.steps[i][f]
        /\ fout.plan.analysisType = fin.plan.analysisType
        /\ fout.plan.priority = fin.plan.priority)

C15_Witness ==
  /\ fpc = "done" /\ fin.op = "roundTrip"
  /\ Len(fin.plan.steps) = 6
  /\ ~fout.threw
  /\ fout.plan.steps[6].mcpServer = "news"
  /\ fout.plan.steps[6].parameters = [query |-> <<"ETH", "cryptocurrency news">>]

\* The two strings differ at most in the case of their letters.
SameLetters(a, b) == FormsOf(a) = FormsOf(b)

\* The canonical identifier of a string: the mapped value of the key that
\* has its letters, or its lower-cased copy when no key has.
Canonical(str) ==
  IF \E k \in DOMAIN SYMBOL_MAPPING : SameLetters(k, str)
  THEN SYMBOL_MAPPING[CHOOSE k \in DOMAIN SYMBOL_MAPPING : SameLetters(k, str)]
  ELSE FormsOf(str)[2]

\* C16: normalizeSymbol never raises; it returns the mapped identifier of
\* the key its argument spells in any case, and the lower-cased argument
\* when there is no such key; executeStep passes this value as the symbol
\* parameter of every step that is not a news search.
C16_NormalizeSymbol ==
  /\ (fpc = "done" /\ fin.op = "normalizeSymbol")
       => (~fout.threw /\ fout.value = Canonical(fin.symbol))
  /\ (fpc = "done" /\ fin.op = "executeStep" /\ fin.step.toolName # "search_news")
       => (~fout.threw /\ fout.value.symbol = Canonical(fin.step.targetSymbol))

C16_Witness ==
  /\ fpc = "done" /\ fin.op = "executeStep"
  /\ fin.step.toolName = "get_market_data"
  /\ fin.step.targetSymbol = "Bitcoin"
  /\ fin.step.parameters = [days |-> "7", symbol |-> "PEPE"]
  /\ fout.value = [days |-> "7", symbol |-> "bitcoin"]

AnalysisCalled ==
  /\ fpc = "done" /\ fin.op = "performComprehensiveAnalysis"
  /\ fin.toolName \in {"get_crypto_price", "get_market_data"} /\ fin.hasSymbol

\* C19: every analysis the Analyzer returns has a confidence within [0, 1]
\* (0..100 hundredths), whatever the LLM's JSON holds under confidence.
C19_ConfidenceInRange ==
  (fpc = "done" /\ fin.op = "performComprehensiveAnalysis" /\ ~fout.isNull)
    => (fout.confidence >= 0 /\ fout.confidence <= 100)

C19_Witness ==
  /\ AnalysisCalled
  /\ fin.llm = LlmJson([recommendation |-> "buy", confidence |-> Num(150)])
  /\ ~fout.isNull
  /\ fout.confidence = 50

\* The LLM call failed, or its answer is no JSON or violates the schema.
AnalyzerFailure ==
  \/ fin.llm.kind \in {"throw", "text"}
  \/ /\ fin.llm.kind = "json"
     /\ \/ /\ "recommendation" \in DOMAIN fin.llm.fields
           /\ fin.llm.fields.recommendation \notin {"buy", "sell", "hold"}
        \/ /\ "confidence" \in DOMAIN fin.llm.fields
           /\ \/ ~fin.llm.fields.confidence.isNumber
              \/ fin.llm.fields.confidence.pct < 0
              \/ fin.llm.fields.confidence.pct > 100

\* C20 (as stated): on a failure of the LLM call, an unparsable answer or a
\* schema violation the Analyzer returns the default judgment for the
\* target symbol: hold, confidence 0.5, reasoning labelled as a failure.
C20_DefaultOnFailure ==
  (AnalysisCalled /\ AnalyzerFailure)
    => (/\ ~fout.isNull
        /\ fout.symbol = fin.targetSymbol
        /\ fout.recommendation = "hold"
        /\ fout.confidence = 50
        /\ fout.reasoning = "failed")

(***************************************************************************)
(* The plan and the results during the loop                                *)
(***************************************************************************)
\* C21: once the plan is built, no run of execute_step or analyze_data
\* changes the number of steps or the id, tool, server or target of any
\* step; a result that is set is never set again, and a completed flag never
\* goes back to false.
C21_PlanFixed ==
  [][Looping =>
       LET before == state.executionPlan.steps
           after == state'.executionPlan.steps
       IN  /\ Len(after) = Len(before)
           /\ \A i \in 1..Len(before) :
                /\ after[i].id = before[i].id
                /\ after[i].toolName = before[i].toolName
                /\ after[i].mcpServer = before[i].mcpServer
                /\ after[i].targetSymbol = before[i].targetSymbol
                /\ before[i].completed => after[i].completed
                /\ before[i].result # NoResult => after[i].result = before[i].result
    ]_vars

C21_Witness ==
  /\ pc = "returned"
  /\ PlanLen = 3
  /\ state.executionPlan.steps[1].id = <<"price", "ETH", 0>>
  /\ state.executionPlan.steps[2].id = <<"market", "ETH", 0>>
  /\ state.executionPlan.steps[3].id = <<"news", "ETH", 0>>
  /\ \A i \in 1..3 : state.executionPlan.steps[i].completed
  /\ StepResult(1).payload = "data"
  /\ StepResult(2).payload = "text"
  /\ StepResult(3).payload = "data"

(***************************************************************************)
(* Properties of the orchestrator's MCPClientManager                       *)
(***************************************************************************)
\* The sessions whose callTool is in flight on the connection of a server.
CallsInFlight(server) == {s \in Sessions : swait[s] = server}

\* C22 (as stated): at most one call is in flight on any connection at any
\* time, whatever the interleaving of the sessions that share the manager.
C22_OneCallPerConnection ==
  \A server \in {ServerOrder[i] : i \in 1..Len(ServerOrder)} :
    Cardinality(CallsInFlight(server)) <= 1

\* C23 (as stated): when no provider can be connected at the start, the
\* session is fatal and the caller is told: initialize rejects, the runner
\* analyzes no query; and a failed connection is fatal only in that case.
C23_FatalIffNoProvider ==
  /\ Connectable = {}
       => (ipc \in {"idle", "connect", "rejected"}
           /\ runner \in {"start", "initialize", "exit1"})
  /\ (ipc = "rejected" /\ provider[ServerOrder[iat]] = "no_connect")
       => Connectable = {}

\* analyzeData was called on a state for which no judgment can be made: no
\* step is completed, the step has no result, its payload is empty, an
\* error or no JSON, its tool is not a price or market tool, or the LLM
\* call fails and the Analyzer returns null.
CannotJudge ==
  /\ fpc = "done" /\ fin.op = "analyzeData"
  /\ \/ fin.state.currentStep = 0
     \/ LET completedStep == fin.state.executionPlan.steps[fin.state.currentStep]
        IN  \/ completedStep.result = NoResult
            \/ completedStep.result.payload \in {"empty", "error", "text"}
            \/ completedStep.toolName \notin {"get_crypto_price", "get_market_data"}
     \/ fin.llm.kind = "throw"

\* C24: when analyzeData cannot produce a judgment for the step just
\* completed it does not raise and returns an empty update: analysisResults,
\* executionPlan and currentStep are what they were, no error is set, and
\* execute_step runs next.
C24_OmittedStep ==
  CannotJudge
    => (/\ ~fout.threw
        /\ fout.update = EmptyUpdate
        /\ fout.state = fin.state
        /\ fout.next = "execute_step")

C24_Witness ==
  /\ CannotJudge
  /\ fin.state.currentStep = 2
  /\ fin.state.executionPlan.steps[2].result # NoResult
  /\ fin.state.executionPlan.steps[2].result.payload = "error"
  /\ fin.state.analysisResults = <<EarlierAnalysis>>
  /\ fin.llm = LlmJson([recommendation |-> "buy", confidence |-> Num(90)])
  /\ fout.state.analysisResults = <<EarlierAnalysis>>

\* C25 (as stated): every run of analyze_data that produces a judgment adds
\* exactly that one judgment at the end of analysisResults and a run that
\* produces none leaves the list alone, so that after k judgments the list
\* holds exactly these k, each once, in step order.
C25_EachJudgmentOnce ==
  [][pc = "analyze_data" =>
       IF "analysisResults" \in DOMAIN lastUpdate'
       THEN LET returned == lastUpdate'.analysisResults
            IN  state'.analysisResults =
                  Append(state.analysisResults, returned[Len(returned)])
       ELSE state'.analysisResults = state.analysisResults
    ]_vars

\* C29: in every state of the execute/analyze loop and after it, currentStep
\* lies within 0..len(steps), every step before currentStep is completed
\* and no step from currentStep on has a result; a run of execute_step with
\* currentStep >= len(steps) changes nothing in the state.
C29_LoopInvariant ==
  /\ [](/\ state.currentStep \in 0..PlanLen
        /\ \A i \in 1..PlanLen :
             /\ i <= state.currentStep => state.executionPlan.steps[i].completed
             /\ i > state.currentStep => StepResult(i) = NoResult)
  /\ [][(pc = "execute_step" /\ state.currentStep >= PlanLen) => state' = state]_vars

C29_Witness ==
  /\ pc = "analyze_data"
  /\ PlanLen = 3
  /\ state.currentStep = 2
  /\ state.executionPlan.steps[1].completed /\ StepResult(1).payload = "error"
  /\ state.executionPlan.steps[2].completed /\ StepResult(2).payload = "text"
  /\ ~state.executionPlan.steps[3].completed /\ StepResult(3) = NoResult

\* C27 (as stated): a getClient call that begins once disconnectAll has
\* started is rejected; once disconnectAll has returned the registry is
\* empty for ever and no transport is open (but one whose close failed and
\* was logged), also when a getClient call was awaiting connect() at the
\* moment disconnectAll began.
C27_ShutdownIsFinal ==
  /\ [][\A p \in Calls :
          (cpc[p] = "idle" /\ cpc'[p] # "idle" /\ dpc # "idle") => cpc'[p] = "failed"]_vars
  /\ [](dpc = "returned" =>
          /\ \A n \in ManagerServers : clients[n] = NoClient
          /\ \A c \in Calls :
               tstate[c] = "open" => \E n \in derrors : dsnap[n] = c)

\* C28 (as stated): cleanup does not raise; when it has returned, close()
\* was called on every transport that was registered and the client map,
\* the transport map and the tool registry are empty, also when a close()
\* threw.
C28_CleanupClearsAll ==
  kpc = "returned" =>
    /\ \A i \in 1..Len(kleft) : kleft[i] \in kattempted
    /\ mcpClients = {}
    /\ mcpTransports = {}
    /\ toolMetadata = {}

\* An agent whose analyze returned the failure update reported an error.
ReportedError(a) == wupdate[a] # Running /\ "errors" \in DOMAIN wupdate[a]

\* C26: when coordination starts, the three agent nodes have all returned,
\* agentStatus holds a terminal status (completed or failed) for each of
\* stock, crypto and news, and errors holds the error string of every agent
\* that reported one: merging the three parallel updates loses none.
C26_NoUpdateLost ==
  wpc = "coordination" =>
    /\ \A a \in Agents : wupdate[a] # Running
    /\ \A a \in Agents :
         /\ a \in DOMAIN wstate.agentStatus
         /\ wstate.agentStatus[a] \in {"completed", "failed"}
    /\ \A a \in Agents :
         ReportedError(a) => AgentError(a) \in SeqRange(wstate.errors)

\* C30: processUserRequest always terminates; a request makes at most
\* maxIterations LLM round-trips and at most maxIterations tool executions;
\* an unknown tool name or a tool execution error is appended to the
\* conversation, at the cost of one iteration, and is never raised; and the
\* max-iterations warning is printed only when the loop ended without a
\* final answer.
C30_ProcessUserRequest ==
  /\ [](/\ llmCalls <= maxIterations
        /\ toolExecs <= maxIterations
        /\ Len(messages) <= 2 + iteration
        /\ warned => ~answered)
  /\ [][qpc = "tool" => /\ qpc' # "raised"
                        /\ Len(messages') = Len(messages) + 1]_vars
  /\ [][qpc' = "raised" => messages' = messages]_vars
  /\ <>(qpc \in {"returned", "raised"})

====
